---- MODULE Spec2Model ----
(***************************************************************************)
(* Herald: signal delivery engine.                                         *)
(*                                                                         *)
(* The module models the delivery worker (crates/worker), the agent        *)
(* registry (crates/core/src/tunnel.rs), the tunnel session handler        *)
(* (crates/api/src/tunnel/server.rs) and the publish route                 *)
(* (crates/api/src/routes/signals.rs) as one state machine over the        *)
(* database tables, the two job lanes and the in-process registry.         *)
(* Several specifications share the variables; each one starts from the    *)
(* states its part of the program can be in and takes that part's steps.   *)
(***************************************************************************)
EXTENDS Integers, Sequences, FiniteSets, Bags, TLC

VARIABLES
    channels,       \* table channels: id -> row
    signals,        \* table signals: id -> row (DOMAIN = the ids that exist)
    subscriptions,  \* table subscriptions: id -> row
    webhooks,       \* table webhooks: id -> row
    api_keys,       \* table api_keys: set of rows
    deliveries,     \* table deliveries: id -> row
    dlq,            \* table dead_letter_queue: id -> row
    queues,         \* lane -> bag of DeliveryJob
    timers,         \* bag of spawned delayed requeue tasks
    runs,           \* bag of the handle_delivery_job calls in progress
    returned,       \* what the finished handle_delivery_job calls returned
    endpoint,       \* webhook id -> how the subscriber's endpoint fails
    agents,         \* AgentRegistry.agents: set of (subscriber, connection)
    conns,          \* connection id -> tunnel session of that connection
    got,            \* result of the last AgentRegistry::get call
    last,           \* per subscriber: the last register/unregister call
    resp,           \* outcome of the last push_signal request
    rp,             \* retry_policy: argument and result
    agentProc       \* the agent's run_tunnel loop: position, backoff, session

vars == << channels, signals, subscriptions, webhooks, api_keys, deliveries,
           dlq, queues, timers, runs, returned, endpoint, agents,
           conns, got, last, resp, rp, agentProc >>

dbVars == << channels, signals, subscriptions, webhooks, api_keys >>

----------------------------------------------------------------------------
(* Bounds of the model *)

MaxWorkers == 2
MaxRetryArg == 60

(* Program constants *)

MaxAttempt == 5
ChannelCapacity == 64

None == "none"

Urgencies == {"low", "normal", "high", "critical"}
Lanes == {"delivery-high", "delivery-normal"}

SubscriberIds == {"sub_T", "sub_F"}
(* The keys the registry is called with: the subscribers and a stranger *)
RegistrySubscribers == SubscriberIds \cup {"sub_X"}
ConnIds == {"conn_1", "conn_2", "conn_3"}

----------------------------------------------------------------------------
(* retry_policy with a sixth arm, 5 => 7200 *)
retry_policy_SixArms(attempt) ==
    CASE attempt = 0 -> 0
      [] attempt = 1 -> 60
      [] attempt = 2 -> 300
      [] attempt = 3 -> 1800
      [] attempt = 4 -> 7200
      [] attempt = 5 -> 7200
      [] OTHER -> 21600

(* retry_policy *)

retry_policy(attempt) ==
    CASE attempt = 0 -> 0
      [] attempt = 1 -> 60
      [] attempt = 2 -> 300
      [] attempt = 3 -> 1800
      [] attempt = 4 -> 7200
      [] OTHER -> 21600

(* The terminal check moved one attempt later *)
Exhausted_OffByOne(attempt) == attempt > MaxAttempt

(* The terminal check of both failure handlers: attempt >= 5 *)
Exhausted(attempt) == attempt >= MaxAttempt

(* The flag without its condition: a tunnel failure always retries *)
AllowRetry_Always(subscription) == TRUE

(* handle_delivery_job line 51: retries of a tunnel failure only for a
   subscription without a webhook *)
AllowRetry(subscription) == subscription.webhook_id = None

(* The match with the critical arm dropped *)
RequeueLane_HighOnly(urgency) ==
    IF urgency = "high" THEN "delivery-high" ELSE "delivery-normal"

(* The lane a failure handler requeues on: the match on signal.urgency *)
RequeueLane(urgency) ==
    IF urgency \in {"high", "critical"} THEN "delivery-high" ELSE "delivery-normal"

(* Option<i32>::None of a status code *)
NoCode == 0

(* A test that takes redirects for successes *)
IsSuccess_Below400(code) == code >= 200 /\ code < 400

(* StatusCode::is_success *)
IsSuccess(code) == code >= 200 /\ code < 300

----------------------------------------------------------------------------
(* Database operations used by the worker *)

(* format!("del_{}", nanoid!(12)): an id no other row has.  The id names
   what the row is for, and counts the rows already made for the same *)
NewDeliveryId(signal_id, subscription_id, mode, attempt) ==
    << signal_id, subscription_id, mode, attempt,
       1 + Cardinality({d \in DOMAIN deliveries :
                          /\ d[1] = signal_id /\ d[2] = subscription_id
                          /\ d[3] = mode /\ d[4] = attempt}) >>

NoDelivery == << None, None, None, 0, 0 >>

(* A create whose row starts out as success *)
DeliveryCreate_Success(id, signal_id, subscription_id, webhook_id, mode, attempt) ==
    deliveries @@
        (id :> [signal_id |-> signal_id, subscription_id |-> subscription_id,
                webhook_id |-> webhook_id, mode |-> mode, attempt |-> attempt,
                status |-> "success", status_code |-> NoCode])

(* deliveries::create: a new row, status pending *)
DeliveryCreate(id, signal_id, subscription_id, webhook_id, mode, attempt) ==
    deliveries @@
        (id :> [signal_id |-> signal_id, subscription_id |-> subscription_id,
                webhook_id |-> webhook_id, mode |-> mode, attempt |-> attempt,
                status |-> "pending", status_code |-> NoCode])

(* deliveries::update_status *)
DeliveryUpdateStatus(id, status, status_code) ==
    [deliveries EXCEPT ![id].status = status, ![id].status_code = status_code]

(* The UPDATE without the delivery_count column *)
IncrementDeliveryCounts_NoTotal(signal_id, delivered_delta, failed_delta, total_delta) ==
    IF signal_id \in DOMAIN signals
    THEN [signals EXCEPT
            ![signal_id].delivered_count = @ + delivered_delta,
            ![signal_id].failed_count = @ + failed_delta]
    ELSE signals

(* signals::increment_delivery_counts: one UPDATE with relative deltas *)
IncrementDeliveryCounts(signal_id, delivered_delta, failed_delta, total_delta) ==
    IF signal_id \in DOMAIN signals
    THEN [signals EXCEPT
            ![signal_id].delivered_count = @ + delivered_delta,
            ![signal_id].failed_count = @ + failed_delta,
            ![signal_id].delivery_count = @ + total_delta]
    ELSE signals

(* webhooks::update_failure *)
WebhookUpdateFailure(id) ==
    IF id \in DOMAIN webhooks
    THEN [webhooks EXCEPT ![id].failure_count = @ + 1]
    ELSE webhooks

(* update_success without the reset of failure_count *)
WebhookUpdateSuccess_NoReset(id) == webhooks

(* webhooks::update_success *)
WebhookUpdateSuccess(id) ==
    IF id \in DOMAIN webhooks
    THEN [webhooks EXCEPT ![id].failure_count = 0]
    ELSE webhooks

(* dead_letter_queue::create; the id, format!("dlq_{}", nanoid!(12)), is
   fresh: the handler that makes it is the only one holding delivery_id *)
DlqCreate(delivery_id, signal_id, subscription_id) ==
    dlq @@
        (<< "dlq", delivery_id >> :>
            [delivery_id |-> delivery_id, signal_id |-> signal_id,
             subscription_id |-> subscription_id, resolved |-> FALSE])

----------------------------------------------------------------------------
(* Agent registry: a map kept as a set of entries *)

(* AgentRegistry::get *)
RegistryGet(subscriber_id) ==
    IF \E e \in agents : e.subscriber_id = subscriber_id
    THEN (CHOOSE e \in agents : e.subscriber_id = subscriber_id).connection_id
    ELSE None

(* An insert that keeps the entry the key already has *)
RegistryInsert_IfAbsent(subscriber_id, connection_id) ==
    IF \E e \in agents : e.subscriber_id = subscriber_id
    THEN agents
    ELSE agents \cup {[subscriber_id |-> subscriber_id,
                       connection_id |-> connection_id]}

(* AgentRegistry::register: HashMap::insert replaces the entry of the key *)
RegistryInsert(subscriber_id, connection_id) ==
    {e \in agents : e.subscriber_id # subscriber_id}
        \cup {[subscriber_id |-> subscriber_id, connection_id |-> connection_id]}

(* A remove that empties the map *)
RegistryRemove_Clear(subscriber_id) == {}

(* AgentRegistry::unregister: HashMap::remove *)
RegistryRemove(subscriber_id) ==
    {e \in agents : e.subscriber_id # subscriber_id}

(* What a caller of get holds: the key, the answer, and the connection
   last registered for the key and not unregistered since *)
NoGot == [subscriber_id |-> None, result |-> None, expected |-> None]

(* Per key, the connection of the last register call, None after an
   unregister call, the connection that call replaced or removed, and
   which of the two the call was *)
NoLast == [connection_id |-> None, replaced |-> None, op |-> None]

(* What a caller of push_signal holds *)
NoResp ==
    [caller |-> [owner_type |-> None, owner_id |-> None], status |-> None,
     signal_id |-> None, channel_id |-> None, urgency |-> None]

----------------------------------------------------------------------------
(* API keys and tunnel authentication *)

(* hash_api_key: the hex SHA-256 of the raw key, kept symbolic *)
hash_api_key(raw) == << "sha256", raw >>

ApiKeyRow(id, raw, owner_type, owner_id, status) ==
    [id |-> id, key_hash |-> hash_api_key(raw), owner_type |-> owner_type,
     owner_id |-> owner_id, status |-> status, expires_at |-> << >>]

(* Option<ApiKey>::None *)
NoKey ==
    [id |-> None, key_hash |-> << >>, owner_type |-> None, owner_id |-> None,
     status |-> None, expires_at |-> << >>]

(* The lookup without its status condition *)
get_by_hash_AnyStatus(key_hash) ==
    IF \E k \in api_keys : k.key_hash = key_hash
    THEN CHOOSE k \in api_keys : k.key_hash = key_hash
    ELSE NoKey

(* api_keys::get_by_hash: WHERE key_hash = $1 AND status = 'active' *)
get_by_hash(key_hash) ==
    IF \E k \in api_keys : k.key_hash = key_hash /\ k.status = "active"
    THEN CHOOSE k \in api_keys : k.key_hash = key_hash /\ k.status = "active"
    ELSE NoKey

(* api_keys::revoke *)
ApiKeyRevoke(id) ==
    {IF k.id = id THEN [k EXCEPT !.status = "revoked"] ELSE k : k \in api_keys}

AuthErr(message) ==
    [ok |-> FALSE, subscriber_id |-> None, key |-> NoKey, message |-> message]

(* authenticate: Ok(owner_id) for an active key of a subscriber, else
   Err(message) *)
authenticate(token) ==
    IF token = ""
    THEN AuthErr("missing token")
    ELSE LET api_key == get_by_hash(hash_api_key(token)) IN
         IF api_key = NoKey
         THEN AuthErr("invalid token")
         ELSE IF api_key.owner_type # "subscriber"
         THEN AuthErr("subscriber token required")
         ELSE [ok |-> TRUE, subscriber_id |-> api_key.owner_id,
               key |-> api_key, message |-> None]

----------------------------------------------------------------------------
(* The delivery worker: handle_delivery_job, one step per await that
   touches shared state *)

Job(signal_id, subscription_id, webhook_id, attempt) ==
    [signal_id |-> signal_id, subscription_id |-> subscription_id,
     webhook_id |-> webhook_id, attempt |-> attempt]

(* The locals of one call; n_failed, n_requeue and n_dlq count what the
   call has recorded so far; guard is the guard of the registry's RwLock
   the call holds *)
NewRun(job, lane) ==
    [pc |-> "load", job |-> job, lane |-> lane, agent |-> None,
     allow_retry |-> FALSE, delivery |-> NoDelivery, webhook |-> None,
     tunnel |-> "none", n_failed |-> 0, n_requeue |-> 0, n_dlq |-> 0,
     guard |-> "none"]

UrgencyOf(run) == signals[run.job.signal_id].urgency
SubOf(run) == subscriptions[run.job.subscription_id]

Running == BagToSet(runs)

(* What the queue sees of a finished call *)
Outcome(run) ==
    [job |-> run.job, result |-> run.pc, tunnel |-> run.tunnel,
     n_failed |-> run.n_failed, n_requeue |-> run.n_requeue,
     n_dlq |-> run.n_dlq]

(* The call moves on to next; at Ok(..) or Err(..) it returns to the queue.
   What the queue does with a job whose call returned Err is the queue's
   business; the result is kept in returned. *)
Advance(run, next) ==
    IF next.pc \in {"ret_ok", "ret_err"}
    THEN /\ runs' = runs (-) SetToBag({run})
         /\ returned' = returned \cup {Outcome(next)}
    ELSE /\ runs' = (runs (-) SetToBag({run})) (+) SetToBag({next})
         /\ UNCHANGED returned

(* A worker of a lane takes a job off its queue.  The queue is an outside
   service: main registers one worker per lane with handle_delivery_job,
   and the queue hands each pushed job to the worker of its lane.  (The
   apalis crate of the source tree is a placeholder for that service.) *)
Dispatch ==
    /\ BagCardinality(runs) < MaxWorkers
    /\ \E lane \in Lanes : \E job \in BagToSet(queues[lane]) :
         /\ queues' = [queues EXCEPT ![lane] = @ (-) SetToBag({job})]
         /\ runs' = runs (+) SetToBag({NewRun(job, lane)})
    /\ UNCHANGED << dbVars, deliveries, dlq, timers, returned, endpoint,
                    agents, conns, got, last, resp, rp, agentProc >>

(* A fall-through that reports the job as done when there is no webhook *)
WebhookOrErr_Ok(run) ==
    LET webhook_id == SubOf(run).webhook_id IN
      IF webhook_id # None /\ webhook_id \in DOMAIN webhooks
      THEN [run EXCEPT !.pc = "w_create", !.webhook = webhook_id]
      ELSE [run EXCEPT !.pc = "ret_ok"]

(* handle_delivery_job lines 67-84: after the tunnel, the webhook of the
   subscription if it has one and the row exists, else an Err *)
WebhookOrErr(run) ==
    LET webhook_id == SubOf(run).webhook_id IN
      IF webhook_id # None /\ webhook_id \in DOMAIN webhooks
      THEN [run EXCEPT !.pc = "w_create", !.webhook = webhook_id]
      ELSE [run EXCEPT !.pc = "ret_err"]

(* A load that answers a missing row with a retry of the job *)
Route_Requeue(run) ==
    /\ run.pc = "load"
    /\ LET job == run.job
           found ==
             /\ job.signal_id \in DOMAIN signals
             /\ job.subscription_id \in DOMAIN subscriptions
             /\ signals[job.signal_id].channel_id \in DOMAIN channels
             /\ subscriptions[job.subscription_id].subscriber_id \in SubscriberIds
       IN IF ~found
          THEN /\ Advance(run, [run EXCEPT !.pc = "ret_err", !.n_requeue = 1])
               /\ timers' = timers (+) SetToBag({
                      [queue |-> run.lane,
                       job |-> [job EXCEPT !.attempt = job.attempt + 1],
                       delay |-> 60]})
          ELSE /\ UNCHANGED timers
               /\ LET agent == RegistryGet(SubOf(run).subscriber_id) IN
                  IF agent # None
                  THEN Advance(run, [run EXCEPT
                                       !.agent = agent,
                                       !.allow_retry = AllowRetry(SubOf(run)),
                                       !.pc = "t_create"])
                  ELSE Advance(run, WebhookOrErr(run))
    /\ UNCHANGED << dbVars, deliveries, dlq, queues, endpoint, agents,
                    conns, got, last, resp, rp, agentProc >>

(* Lines 33-51: load signal, subscription, channel and subscriber, then
   tunnel_registry.get and the allow_retry flag *)
Route(run) ==
    /\ run.pc = "load"
    /\ LET job == run.job
           found ==
             /\ job.signal_id \in DOMAIN signals
             /\ job.subscription_id \in DOMAIN subscriptions
             /\ signals[job.signal_id].channel_id \in DOMAIN channels
             /\ subscriptions[job.subscription_id].subscriber_id \in SubscriberIds
       IN IF ~found
          THEN Advance(run, [run EXCEPT !.pc = "ret_err"])
          ELSE LET agent == RegistryGet(SubOf(run).subscriber_id) IN
               IF agent # None
               THEN Advance(run, [run EXCEPT
                                    !.agent = agent,
                                    !.allow_retry = AllowRetry(SubOf(run)),
                                    !.pc = "t_create"])
               ELSE Advance(run, WebhookOrErr(run))
    /\ UNCHANGED << dbVars, deliveries, dlq, queues, timers, endpoint, agents,
                    conns, got, last, resp, rp, agentProc >>

----------------------------------------------------------------------------
(* Outbound channel of a connection: tokio mpsc::channel(64) *)

SignalMsg(delivery_id) == [type |-> "signal", delivery_id |-> delivery_id]
PingMsg == [type |-> "ping", delivery_id |-> NoDelivery]
AuthOkMsg == [type |-> "auth_ok", delivery_id |-> NoDelivery]
AuthErrorMsg == [type |-> "auth_error", delivery_id |-> NoDelivery]

(* Sender::send resolves with Err once the receiver is dropped *)
ChanClosed(c) == ~conns[c].rx_open
(* Sender::send waits while the buffer holds 64 messages *)
ChanFull(c) == Len(conns[c].outbound) >= ChannelCapacity

ChanPush(c, msg) == [conns EXCEPT ![c].outbound = Append(@, msg)]

(* deliver_via_tunnel lines 266-276: the delivery row, mode agent *)
TunnelCreate(run) ==
    /\ run.pc = "t_create"
    /\ LET job == run.job
           id == NewDeliveryId(job.signal_id, job.subscription_id, "agent",
                               job.attempt)
       IN /\ deliveries' = DeliveryCreate(id, job.signal_id,
                                          job.subscription_id, None, "agent",
                                          job.attempt)
          /\ Advance(run, [run EXCEPT !.delivery = id, !.pc = "t_send"])
    /\ UNCHANGED << dbVars, dlq, queues, timers, endpoint, agents,
                    conns, got, last, resp, rp, agentProc >>

(* Line 294, agent.sender.send(message).await: an error when the receiver
   is gone, the message is buffered when there is room, and otherwise the
   future is pending and the job waits for a permit *)
TunnelSend(run) ==
    /\ run.pc \in {"t_send", "t_blocked"}
    /\ LET c == run.agent IN
         IF ChanClosed(c)
         THEN /\ Advance(run, [run EXCEPT !.pc = "tf_mark"])
              /\ UNCHANGED conns
         ELSE IF ~ChanFull(c)
         THEN /\ conns' = ChanPush(c, SignalMsg(run.delivery))
              /\ Advance(run, [run EXCEPT !.pc = "t_mark"])
         ELSE /\ run.pc = "t_send"
              /\ Advance(run, [run EXCEPT !.pc = "t_blocked"])
              /\ UNCHANGED conns
    /\ UNCHANGED << dbVars, deliveries, dlq, queues, timers, endpoint, agents, got, last, resp, rp, agentProc >>

(* Lines 309-317: the row becomes success *)
TunnelMarkSuccess(run) ==
    /\ run.pc = "t_mark"
    /\ deliveries' = DeliveryUpdateStatus(run.delivery, "success", NoCode)
    /\ Advance(run, [run EXCEPT !.pc = "t_count"])
    /\ UNCHANGED << dbVars, dlq, queues, timers, endpoint, agents,
                    conns, got, last, resp, rp, agentProc >>

(* The success path without the return of line 63: the job goes on to the
   webhook *)
TunnelCountSuccess_NoReturn(run) ==
    /\ run.pc = "t_count"
    /\ signals' = IncrementDeliveryCounts(run.job.signal_id, 1, 0, 1)
    /\ Advance(run, WebhookOrErr([run EXCEPT !.tunnel = "sent"]))
    /\ UNCHANGED << channels, subscriptions, webhooks, api_keys, deliveries,
                    dlq, queues, timers, endpoint, agents, conns, got, last,
                    resp, rp, agentProc >>

(* Lines 319-321 and 63: the counters, Ok(true), and the job returns Ok *)
TunnelCountSuccess(run) ==
    /\ run.pc = "t_count"
    /\ signals' = IncrementDeliveryCounts(run.job.signal_id, 1, 0, 1)
    /\ Advance(run, [run EXCEPT !.tunnel = "sent", !.pc = "ret_ok"])
    /\ UNCHANGED << channels, subscriptions, webhooks, api_keys, deliveries,
                    dlq, queues, timers, endpoint, agents, conns, got, last,
                    resp, rp, agentProc >>

(* handle_tunnel_failure lines 335-343 *)
TunnelFailMark(run) ==
    /\ run.pc = "tf_mark"
    /\ deliveries' = DeliveryUpdateStatus(run.delivery, "failed", NoCode)
    /\ Advance(run, [run EXCEPT !.pc = "tf_count", !.n_failed = @ + 1,
                             !.tunnel = "failed"])
    /\ UNCHANGED << dbVars, dlq, queues, timers, endpoint, agents,
                    conns, got, last, resp, rp, agentProc >>

(* handle_tunnel_failure line 345 *)
TunnelFailCount(run) ==
    /\ run.pc = "tf_count"
    /\ signals' = IncrementDeliveryCounts(run.job.signal_id, 0, 1, 1)
    /\ Advance(run, [run EXCEPT !.pc = "tf_policy"])
    /\ UNCHANGED << channels, subscriptions, webhooks, api_keys, deliveries,
                    dlq, queues, timers, endpoint, agents, conns,
                    got, last, resp, rp, agentProc >>

(* The detached task of a failure handler: sleep(delay), then push *)
Timer(lane, job, delay) == [queue |-> lane, job |-> job, delay |-> delay]

(* handle_tunnel_failure lines 347-392: nothing without allow_retry, a DLQ
   entry at attempt >= 5, else a delayed requeue of attempt + 1.  Then
   deliver_via_tunnel returns Ok(false) and handle_delivery_job goes on
   at line 67 *)
TunnelFailPolicy(run) ==
    /\ run.pc = "tf_policy"
    /\ LET job == run.job IN
         IF ~run.allow_retry
         THEN /\ Advance(run, WebhookOrErr(run))
              /\ UNCHANGED << dlq, timers >>
         ELSE IF Exhausted(job.attempt)
         THEN /\ dlq' = DlqCreate(run.delivery, job.signal_id,
                                  job.subscription_id)
              /\ Advance(run, WebhookOrErr([run EXCEPT !.n_dlq = @ + 1]))
              /\ UNCHANGED timers
         ELSE /\ timers' = timers (+) SetToBag({
                    Timer(RequeueLane(UrgencyOf(run)),
                          Job(job.signal_id, job.subscription_id,
                              SubOf(run).webhook_id, job.attempt + 1),
                          retry_policy(job.attempt + 1))})
              /\ Advance(run, WebhookOrErr([run EXCEPT !.n_requeue = @ + 1]))
              /\ UNCHANGED dlq
    /\ UNCHANGED << dbVars, deliveries, queues, endpoint, agents,
                    conns, got, last, resp, rp, agentProc >>

----------------------------------------------------------------------------
(* Webhook delivery *)

(* deliver_via_webhook lines 97-107: the delivery row, mode webhook *)
WebhookCreate(run) ==
    /\ run.pc = "w_create"
    /\ LET job == run.job
           id == NewDeliveryId(job.signal_id, job.subscription_id, "webhook",
                               job.attempt)
       IN /\ deliveries' = DeliveryCreate(id, job.signal_id,
                                          job.subscription_id, run.webhook,
                                          "webhook", job.attempt)
          /\ Advance(run, [run EXCEPT !.delivery = id, !.pc = "w_post"])
    /\ UNCHANGED << dbVars, dlq, queues, timers, endpoint, agents, conns, got,
                    last, resp, rp, agentProc >>

(* What one POST to the endpoint of a webhook can come back with: 200, or
   the other answer of this endpoint (a status code, or NoCode for a
   transport error) *)
PostResults(webhook_id) == {200, endpoint[webhook_id]}

(* Lines 127-143 and 153-183, with handle_webhook_failure lines 199-207:
   the POST, the match on its result, and the row becomes success or
   failed *)
WebhookPost(run) ==
    /\ run.pc = "w_post"
    /\ \E status_code \in PostResults(run.webhook) :
         IF IsSuccess(status_code)
         THEN /\ deliveries' = DeliveryUpdateStatus(run.delivery, "success",
                                                    status_code)
              /\ Advance(run, [run EXCEPT !.pc = "w_count"])
         ELSE /\ deliveries' = DeliveryUpdateStatus(run.delivery, "failed",
                                                    status_code)
              /\ Advance(run, [run EXCEPT !.pc = "wf_count", !.n_failed = @ + 1])
    /\ UNCHANGED << dbVars, dlq, queues, timers, endpoint, agents, conns, got,
                    last, resp, rp, agentProc >>

(* Lines 145-146 *)
WebhookCountSuccess(run) ==
    /\ run.pc = "w_count"
    /\ signals' = IncrementDeliveryCounts(run.job.signal_id, 1, 0, 1)
    /\ Advance(run, [run EXCEPT !.pc = "w_reset"])
    /\ UNCHANGED << channels, subscriptions, webhooks, api_keys, deliveries,
                    dlq, queues, timers, endpoint, agents, conns, got, last,
                    resp, rp, agentProc >>

(* Lines 148-150: webhooks::update_success, then Ok(()) *)
WebhookResetFailures(run) ==
    /\ run.pc = "w_reset"
    /\ webhooks' = WebhookUpdateSuccess(run.webhook)
    /\ Advance(run, [run EXCEPT !.pc = "ret_ok"])
    /\ UNCHANGED << channels, signals, subscriptions, api_keys, deliveries,
                    dlq, queues, timers, endpoint, agents, conns, got, last,
                    resp, rp, agentProc >>

(* handle_webhook_failure line 209 *)
WebhookFailCount(run) ==
    /\ run.pc = "wf_count"
    /\ signals' = IncrementDeliveryCounts(run.job.signal_id, 0, 1, 1)
    /\ Advance(run, [run EXCEPT !.pc = "wf_bump"])
    /\ UNCHANGED << channels, subscriptions, webhooks, api_keys, deliveries,
                    dlq, queues, timers, endpoint, agents, conns, got, last,
                    resp, rp, agentProc >>

(* handle_webhook_failure line 210: webhooks::update_failure *)
WebhookFailBump(run) ==
    /\ run.pc = "wf_bump"
    /\ webhooks' = WebhookUpdateFailure(run.webhook)
    /\ Advance(run, [run EXCEPT !.pc = "wf_policy"])
    /\ UNCHANGED << channels, signals, subscriptions, api_keys, deliveries,
                    dlq, queues, timers, endpoint, agents, conns, got, last,
                    resp, rp, agentProc >>

(* A handler that pushes the next job itself, without the delayed task *)
WebhookFailPolicy_PushNow(run) ==
    /\ run.pc = "wf_policy"
    /\ LET job == run.job IN
         IF Exhausted(job.attempt)
         THEN /\ dlq' = DlqCreate(run.delivery, job.signal_id,
                                  job.subscription_id)
              /\ Advance(run, [run EXCEPT !.pc = "ret_ok", !.n_dlq = @ + 1])
              /\ UNCHANGED queues
         ELSE /\ queues' = [queues EXCEPT ![RequeueLane(UrgencyOf(run))] =
                    @ (+) SetToBag({Job(job.signal_id, job.subscription_id,
                                        run.webhook, job.attempt + 1)})]
              /\ Advance(run, [run EXCEPT !.pc = "ret_ok",
                                          !.n_requeue = @ + 1])
              /\ UNCHANGED dlq
    /\ UNCHANGED << dbVars, deliveries, timers, endpoint, agents, conns, got,
                    last, resp, rp, agentProc >>

(* handle_webhook_failure lines 212-253: a DLQ entry at attempt >= 5, else
   a delayed requeue of attempt + 1; Ok(()) either way *)
WebhookFailPolicy(run) ==
    /\ run.pc = "wf_policy"
    /\ LET job == run.job IN
         IF Exhausted(job.attempt)
         THEN /\ dlq' = DlqCreate(run.delivery, job.signal_id,
                                  job.subscription_id)
              /\ Advance(run, [run EXCEPT !.pc = "ret_ok", !.n_dlq = @ + 1])
              /\ UNCHANGED timers
         ELSE /\ timers' = timers (+) SetToBag({
                    Timer(RequeueLane(UrgencyOf(run)),
                          Job(job.signal_id, job.subscription_id,
                              run.webhook, job.attempt + 1),
                          retry_policy(job.attempt + 1))})
              /\ Advance(run, [run EXCEPT !.pc = "ret_ok",
                                          !.n_requeue = @ + 1])
              /\ UNCHANGED dlq
    /\ UNCHANGED << dbVars, deliveries, queues, endpoint, agents, conns, got,
                    last, resp, rp, agentProc >>

----------------------------------------------------------------------------
(* The queue *)

(* storage.push: the job waits on the lane for a worker *)
QueuePush(lane, job) == [queues EXCEPT ![lane] = @ (+) SetToBag({job})]

(* The detached requeue task wakes up after its delay and pushes the job *)
RequeueFire ==
    \E t \in BagToSet(timers) :
        /\ timers' = timers (-) SetToBag({t})
        /\ queues' = QueuePush(t.queue, t.job)
        /\ UNCHANGED << dbVars, deliveries, dlq, runs, returned, endpoint,
                        agents, conns, got, last, resp, rp, agentProc >>

----------------------------------------------------------------------------
(* Tunnel session: handle_socket *)

(* The first frame a client sends: an auth message with a token, or
   anything else (another message, bytes that do not parse, a close) *)
Tokens == {"", "tok_T", "tok_F", "tok_P", "tok_R", "tok_U"}
AuthFrameOf(token) == [kind |-> "auth", token |-> token]
OtherFrame == [kind |-> "other", token |-> ""]
NoFrame == [kind |-> "none", token |-> ""]
Frames == {AuthFrameOf(t) : t \in Tokens} \cup {OtherFrame}

(* A session: where handle_socket is, its locals, its channel, its
   send_task (writer) and what the handshake has answered so far (replies) *)
NoConn ==
    [pc |-> "none", subscriber_id |-> None, outbound |-> << >>,
     rx_open |-> FALSE, writer |-> "none", frame |-> NoFrame,
     auth_key |-> NoKey, replies |-> {}]

(* Lines 31-49: the socket is split, the channel made, send_task spawned *)
Connect(c) ==
    /\ conns[c].pc = "none"
    /\ conns' = [conns EXCEPT ![c].pc = "wait_auth", ![c].rx_open = TRUE,
                               ![c].writer = "running"]
    /\ UNCHANGED << dbVars, deliveries, dlq, queues, timers, runs, returned,
                    endpoint, agents, got, last, resp, rp, agentProc >>

(* The first frame of a session that lets the handler read on after a
   refusal *)
AuthFrame_NoClose(c) ==
    /\ conns[c].pc = "wait_auth"
    /\ \E frame \in Frames :
         LET r == IF frame.kind = "auth" THEN authenticate(frame.token)
                                        ELSE AuthErr("invalid auth payload")
         IN conns' =
              IF r.ok
              THEN [conns EXCEPT ![c].pc = "authed", ![c].frame = frame,
                                 ![c].subscriber_id = r.subscriber_id,
                                 ![c].auth_key = r.key]
              ELSE [conns EXCEPT ![c].frame = frame,
                                 ![c].outbound = Append(@, AuthErrorMsg),
                                 ![c].replies = @ \cup {"auth_error"}]
    /\ UNCHANGED << dbVars, deliveries, dlq, queues, timers, runs, returned,
                    endpoint, agents, got, last, resp, rp, agentProc >>

(* Lines 51-86: the first frame and authenticate.  On Ok the session has
   its subscriber_id and connection_id; on Err, or a frame that is no auth
   message, auth_error goes into the channel and the handler returns *)
AuthFrame(c) ==
    /\ conns[c].pc = "wait_auth"
    /\ \E frame \in Frames :
         LET r == IF frame.kind = "auth" THEN authenticate(frame.token)
                                        ELSE AuthErr("invalid auth payload")
         IN conns' =
              IF r.ok
              THEN [conns EXCEPT ![c].pc = "authed", ![c].frame = frame,
                                 ![c].subscriber_id = r.subscriber_id,
                                 ![c].auth_key = r.key]
              ELSE [conns EXCEPT ![c].pc = "closed", ![c].frame = frame,
                                 ![c].outbound = Append(@, AuthErrorMsg),
                                 ![c].replies = @ \cup {"auth_error"}]
    /\ UNCHANGED << dbVars, deliveries, dlq, queues, timers, runs, returned,
                    endpoint, agents, got, last, resp, rp, agentProc >>

(* Line 94: tunnel_registry.register(conn) *)
SessionRegister(c) ==
    /\ conns[c].pc = "authed"
    /\ agents' = RegistryInsert(conns[c].subscriber_id, c)
    /\ conns' = [conns EXCEPT ![c].pc = "registered"]
    /\ UNCHANGED << dbVars, deliveries, dlq, queues, timers, runs, returned,
                    endpoint, got, last, resp, rp, agentProc >>

(* Lines 103-108: auth_ok goes into the channel; an error of the send is
   dropped *)
SendAuthOk(c) ==
    /\ conns[c].pc = "registered"
    /\ ~ChanFull(c)
    /\ conns' =
         IF ChanClosed(c)
         THEN [conns EXCEPT ![c].pc = "live"]
         ELSE [conns EXCEPT ![c].pc = "live",
                            ![c].outbound = Append(@, AuthOkMsg),
                            ![c].replies = @ \cup {"auth_ok"}]
    /\ UNCHANGED << dbVars, deliveries, dlq, queues, timers, runs, returned,
                    endpoint, agents, got, last, resp, rp, agentProc >>

(* Lines 127-147: the read loop ends (close frame, receive error or end of
   stream), then unregister(&subscriber_id) *)
SessionClose(c) ==
    /\ conns[c].pc = "live"
    /\ agents' = RegistryRemove(conns[c].subscriber_id)
    /\ conns' = [conns EXCEPT ![c].pc = "closed"]
    /\ UNCHANGED << dbVars, deliveries, dlq, queues, timers, runs, returned,
                    endpoint, got, last, resp, rp, agentProc >>

(* A key is revoked while sessions come and go *)
RevokeKey ==
    /\ \E k \in api_keys :
         /\ k.status = "active"
         /\ api_keys' = ApiKeyRevoke(k.id)
    /\ UNCHANGED << channels, signals, subscriptions, webhooks, deliveries,
                    dlq, queues, timers, runs, returned, endpoint, agents,
                    conns, got, last, resp, rp, agentProc >>

(* send_task lines 36-48: take one message off the channel and write it to
   the socket; a failed write ends the task and drops the receiver with
   what it still holds *)
WriterSend(c) ==
    /\ conns[c].rx_open
    /\ conns[c].outbound # << >>
    /\ \E ok \in BOOLEAN :
         conns' = [conns EXCEPT ![c].outbound = IF ok THEN Tail(@) ELSE << >>,
                                ![c].rx_open = ok,
                                ![c].writer = IF ok THEN @ ELSE "failed"]
    /\ UNCHANGED << dbVars, deliveries, dlq, queues, timers, runs, returned,
                    endpoint, agents, got, last, resp, rp, agentProc >>

----------------------------------------------------------------------------
(* Rows the specifications start from *)

ChannelRow(status) ==
    [publisher_id |-> "pub_1", status |-> status, signal_count |-> 0,
     subscriber_count |-> 0]

SignalRow(channel_id, urgency) ==
    [channel_id |-> channel_id, urgency |-> urgency, delivery_count |-> 0,
     delivered_count |-> 0, failed_count |-> 0]

SubscriptionRow(subscriber_id, webhook_id, status) ==
    [subscriber_id |-> subscriber_id, channel_id |-> "ch_1",
     webhook_id |-> webhook_id, status |-> status]

WebhookRow(subscriber_id) ==
    [subscriber_id |-> subscriber_id, status |-> "active", failure_count |-> 0]

(* One subscription without a webhook (its subscriber runs an agent) and
   one with a webhook (its subscriber may run an agent too) *)
Subscriptions0 ==
    [id \in {"sbn_T", "sbn_F"} |->
        IF id = "sbn_T" THEN SubscriptionRow("sub_T", None, "active")
                        ELSE SubscriptionRow("sub_F", "wh_F", "active")]

Webhooks0 == [id \in {"wh_F"} |-> WebhookRow("sub_F")]

(* How the endpoint fails in the run that delivers a signal of an urgency:
   404, 503, or a transport error *)
FailureKind(urgency) ==
    CASE urgency = "low" -> 404
      [] urgency = "normal" -> 503
      [] urgency = "high" -> NoCode
      [] OTHER -> 503

(* The keys of the two subscribers, of a publisher, and a revoked one;
   tok_U is the raw key of no row *)
ApiKeys0 ==
    { ApiKeyRow("key_T", "tok_T", "subscriber", "sub_T", "active"),
      ApiKeyRow("key_F", "tok_F", "subscriber", "sub_F", "active"),
      ApiKeyRow("key_P", "tok_P", "publisher", "pub_1", "active"),
      ApiKeyRow("key_R", "tok_R", "subscriber", "sub_T", "revoked") }

TokenOf(subscriber_id) == IF subscriber_id = "sub_T" THEN "tok_T" ELSE "tok_F"

(* A session right after line 108: registered, auth_ok in the channel *)
LiveConn(subscriber_id) ==
    [pc |-> "live", subscriber_id |-> subscriber_id,
     outbound |-> << AuthOkMsg >>, rx_open |-> TRUE, writer |-> "running",
     frame |-> AuthFrameOf(TokenOf(subscriber_id)),
     auth_key |-> CHOOSE k \in ApiKeys0 :
                     k.key_hash = hash_api_key(TokenOf(subscriber_id)),
     replies |-> {"auth_ok"}]

ConnOf(subscriber_id) == IF subscriber_id = "sub_T" THEN "conn_1" ELSE "conn_2"

InitTables ==
    /\ channels = [id \in {"ch_1"} |-> ChannelRow("active")]
    /\ subscriptions = Subscriptions0
    /\ webhooks = Webhooks0
    /\ api_keys = ApiKeys0
    /\ deliveries = << >>
    /\ dlq = << >>
    /\ timers = EmptyBag
    /\ runs = EmptyBag
    /\ returned = {}
    /\ got = NoGot
    /\ last = [s \in RegistrySubscribers |-> NoLast]
    /\ resp = NoResp

(* Nothing published, queued or connected *)
InitQuiet ==
    /\ signals = << >>
    /\ endpoint = [id \in DOMAIN Webhooks0 |-> 503]
    /\ queues = [l \in Lanes |-> EmptyBag]
    /\ agents = {}
    /\ conns = [c \in ConnIds |-> NoConn]

(* The agent is not started *)
NoAgentProc ==
    [pc |-> "off", backoff |-> 0, delay |-> 0, result |-> "none",
     written |-> << >>, forwards |-> << >>]

(* retry_policy not called yet *)
NoRp == [arg |-> 0, done |-> FALSE, result |-> 0]

(* The delivery worker starts with the attempt-0 jobs of one signal on its
   lane, for some of the subscriptions; a subscriber that runs an agent has
   a Live session *)
InitDelivery ==
    /\ InitTables
    /\ rp = NoRp
    /\ agentProc = NoAgentProc
    /\ \E urgency \in Urgencies :
         /\ signals = [id \in {"sig_1"} |-> SignalRow("ch_1", urgency)]
         /\ endpoint = [id \in DOMAIN Webhooks0 |-> FailureKind(urgency)]
         /\ \E subs \in SUBSET (DOMAIN Subscriptions0) :
              /\ subs # {}
              /\ queues = [l \in Lanes |->
                    IF l = RequeueLane(urgency)
                    THEN SetToBag({Job("sig_1", s, Subscriptions0[s].webhook_id, 0)
                                   : s \in subs})
                    ELSE EmptyBag]
              /\ \E online \in SUBSET {Subscriptions0[s].subscriber_id : s \in subs} :
                   /\ agents = {[subscriber_id |-> s, connection_id |-> ConnOf(s)]
                                : s \in online}
                   /\ conns = [c \in ConnIds |->
                         IF \E s \in online : ConnOf(s) = c
                         THEN LiveConn(CHOOSE s \in online : ConnOf(s) = c)
                         ELSE NoConn]

NextDelivery ==
    \/ Dispatch
    \/ \E run \in Running : Route(run)
    \/ \E run \in Running : TunnelCreate(run)
    \/ \E run \in Running : TunnelSend(run)
    \/ \E run \in Running : TunnelMarkSuccess(run)
    \/ \E run \in Running : TunnelCountSuccess(run)
    \/ \E run \in Running : TunnelFailMark(run)
    \/ \E run \in Running : TunnelFailCount(run)
    \/ \E run \in Running : TunnelFailPolicy(run)
    \/ \E run \in Running : WebhookCreate(run)
    \/ \E run \in Running : WebhookPost(run)
    \/ \E run \in Running : WebhookCountSuccess(run)
    \/ \E run \in Running : WebhookResetFailures(run)
    \/ \E run \in Running : WebhookFailCount(run)
    \/ \E run \in Running : WebhookFailBump(run)
    \/ \E run \in Running : WebhookFailPolicy(run)
    \/ RequeueFire
    \/ \E c \in ConnIds : WriterSend(c)

SpecDelivery == InitDelivery /\ [][NextDelivery]_vars

----------------------------------------------------------------------------
(* retry_policy on its own: every argument up to MaxRetryArg *)

InitRetry ==
    /\ \E arg \in 0 .. MaxRetryArg :
         rp = [arg |-> arg, done |-> FALSE, result |-> 0]
    /\ agentProc = NoAgentProc
    /\ InitTables
    /\ InitQuiet

CallRetryPolicy ==
    /\ ~rp.done
    /\ rp' = [rp EXCEPT !.done = TRUE, !.result = retry_policy(rp.arg)]
    /\ UNCHANGED << dbVars, deliveries, dlq, queues, timers, runs, returned,
                    endpoint, agents, conns, got, last, resp, agentProc >>

NextRetry == CallRetryPolicy

SpecRetry == InitRetry /\ [][NextRetry]_vars

----------------------------------------------------------------------------
(* The tunnel sessions on their own: connections come, authenticate with
   any first frame, go Live and leave, while keys are revoked *)

InitTunnel ==
    /\ InitTables
    /\ InitQuiet
    /\ rp = NoRp
    /\ agentProc = NoAgentProc

NextTunnel ==
    \/ \E c \in ConnIds : Connect(c)
    \/ \E c \in ConnIds : AuthFrame(c)
    \/ \E c \in ConnIds : SessionRegister(c)
    \/ \E c \in ConnIds : SendAuthOk(c)
    \/ \E c \in ConnIds : SessionClose(c)
    \/ \E c \in ConnIds : WriterSend(c)
    \/ RevokeKey

SpecTunnel == InitTunnel /\ [][NextTunnel]_vars

----------------------------------------------------------------------------
(* The registry on its own: any sequence of register, unregister and get *)

(* A register that writes back a map holding only the new entry *)
RegistryRegister_Overwrite(subscriber_id, connection_id) ==
    /\ agents' = {[subscriber_id |-> subscriber_id,
                   connection_id |-> connection_id]}
    /\ last' = [last EXCEPT ![subscriber_id] =
                   [connection_id |-> connection_id,
                    replaced |-> last[subscriber_id].connection_id,
                    op |-> "register"]]
    /\ UNCHANGED << dbVars, deliveries, dlq, queues, timers, runs, returned,
                    endpoint, conns, got, resp, rp, agentProc >>

(* register, under the write lock of the map: one call at a time *)
RegistryRegister(subscriber_id, connection_id) ==
    /\ agents' = RegistryInsert(subscriber_id, connection_id)
    /\ last' = [last EXCEPT ![subscriber_id] =
                   [connection_id |-> connection_id,
                    replaced |-> last[subscriber_id].connection_id,
                    op |-> "register"]]
    /\ UNCHANGED << dbVars, deliveries, dlq, queues, timers, runs, returned,
                    endpoint, conns, got, resp, rp, agentProc >>

RegistryUnregister(subscriber_id) ==
    /\ agents' = RegistryRemove(subscriber_id)
    /\ last' = [last EXCEPT ![subscriber_id] =
                   [connection_id |-> None,
                    replaced |-> last[subscriber_id].connection_id,
                    op |-> "unregister"]]
    /\ UNCHANGED << dbVars, deliveries, dlq, queues, timers, runs, returned,
                    endpoint, conns, got, resp, rp, agentProc >>

RegistryGetCall(subscriber_id) ==
    /\ got' = [subscriber_id |-> subscriber_id,
               result |-> RegistryGet(subscriber_id),
               expected |-> last[subscriber_id].connection_id]
    /\ UNCHANGED << dbVars, deliveries, dlq, queues, timers, runs, returned,
                    endpoint, agents, conns, last, resp, rp, agentProc >>

InitRegistry ==
    /\ InitTables
    /\ InitQuiet
    /\ rp = NoRp
    /\ agentProc = NoAgentProc

NextRegistry ==
    \/ \E s \in RegistrySubscribers : \E c \in ConnIds : RegistryRegister(s, c)
    \/ \E s \in RegistrySubscribers : RegistryUnregister(s)
    \/ \E s \in RegistrySubscribers : RegistryGetCall(s)

SpecRegistry == InitRegistry /\ [][NextRegistry]_vars

----------------------------------------------------------------------------
(* Publishing: push_signal *)

MaxSignals == 2

Callers ==
    { [owner_type |-> "publisher", owner_id |-> "pub_1"],
      [owner_type |-> "publisher", owner_id |-> "pub_2"],
      [owner_type |-> "subscriber", owner_id |-> "sub_T"] }

Payloads ==
    [title : {"", " ", "hi"}, body : {"", "there"},
     urgency : Urgencies \cup {None}]

(* str::trim().is_empty() on the strings of Payloads *)
TrimIsEmpty(text) == text \in {"", " "}

(* format!("sig_{}", nanoid!(12)): an id no signal has *)
NewSignalId == "sig_" \o ToString(Cardinality(DOMAIN signals) + 1)

Resp(auth, status, signal_id, channel_id, urgency) ==
    [caller |-> auth, status |-> status, signal_id |-> signal_id,
     channel_id |-> channel_id, urgency |-> urgency]

(* require_publisher that lets every caller through *)
require_publisher_Any(auth) == TRUE

(* require_publisher: Ok for OwnerType::Publisher, else Forbidden *)
require_publisher(auth) == auth.owner_type = "publisher"

(* push_signal lines 90-122, up to the transaction: the caller must be a
   publisher, title and body non-blank, the channel there, owned by the
   caller and active.  A request that passes is pending, with what it has
   read; a refused one has changed nothing. *)
PushSignalCheck(auth, channel_id, payload) ==
    LET refuse(status) == resp' = Resp(auth, status, None, channel_id, None)
        urgency == IF payload.urgency = None THEN "normal" ELSE payload.urgency
    IN
    /\ resp.status # "pending"
    /\ Cardinality(DOMAIN signals) < MaxSignals
    /\ IF ~require_publisher(auth) THEN refuse("forbidden")
       ELSE IF TrimIsEmpty(payload.title) \/ TrimIsEmpty(payload.body)
            THEN refuse("bad_request")
       ELSE IF channel_id \notin DOMAIN channels THEN refuse("not_found")
       ELSE IF channels[channel_id].publisher_id # auth.owner_id
            THEN refuse("forbidden")
       ELSE IF channels[channel_id].status # "active"
            THEN refuse("bad_request")
       ELSE resp' = Resp(auth, "pending", NewSignalId, channel_id, urgency)
    /\ UNCHANGED << channels, signals, subscriptions, webhooks, api_keys,
                    deliveries, dlq, queues, timers, runs, returned, endpoint,
                    agents, conns, got, last, rp, agentProc >>

(* The transaction without its atomicity: a failure after the INSERT
   leaves the signal row *)
PushSignalCommit_NoTx ==
    /\ resp.status = "pending"
    /\ \E ok \in BOOLEAN :
         /\ signals' = signals @@
                (resp.signal_id :> SignalRow(resp.channel_id, resp.urgency))
         /\ IF ok
            THEN /\ channels' = [channels EXCEPT
                                   ![resp.channel_id].signal_count = @ + 1]
                 /\ resp' = [resp EXCEPT !.status = "ok"]
            ELSE /\ UNCHANGED channels
                 /\ resp' = [resp EXCEPT !.status = "internal"]
    /\ UNCHANGED << subscriptions, webhooks, api_keys, deliveries, dlq,
                    queues, timers, runs, returned, endpoint, agents, conns,
                    got, last, rp, agentProc >>

(* push_signal lines 124-155: the INSERT of the signal row and
   signal_count + 1 in one transaction, then Ok; when a statement or the
   commit fails the transaction is rolled back and the handler returns the
   error.  The handler touches no queue. *)
PushSignalCommit ==
    /\ resp.status = "pending"
    /\ \E ok \in BOOLEAN :
         IF ok
         THEN /\ signals' = signals @@
                   (resp.signal_id :> SignalRow(resp.channel_id, resp.urgency))
              /\ channels' = [channels EXCEPT
                                ![resp.channel_id].signal_count = @ + 1]
              /\ resp' = [resp EXCEPT !.status = "ok"]
         ELSE /\ UNCHANGED << signals, channels >>
              /\ resp' = [resp EXCEPT !.status = "internal"]
    /\ UNCHANGED << subscriptions, webhooks, api_keys, deliveries, dlq,
                    queues, timers, runs, returned, endpoint, agents, conns,
                    got, last, rp, agentProc >>

(* delete_channel: for the owning publisher the channel becomes deleted *)
DeleteChannel(auth, id) ==
    /\ require_publisher(auth)
    /\ id \in DOMAIN channels
    /\ channels[id].publisher_id = auth.owner_id
    /\ channels' = [channels EXCEPT ![id].status = "deleted"]
    /\ UNCHANGED << signals, subscriptions, webhooks, api_keys, deliveries,
                    dlq, queues, timers, runs, returned, endpoint, agents,
                    conns, got, last, resp, rp, agentProc >>

SubscriptionStatuses == {"active", "paused", "canceled"}

(* An active and a paused channel of pub_1; the two subscriptions of the
   active channel in any status *)
InitPublish ==
    /\ channels = [id \in {"ch_1", "ch_2"} |->
                     ChannelRow(IF id = "ch_1" THEN "active" ELSE "paused")]
    /\ \E st \in [DOMAIN Subscriptions0 -> SubscriptionStatuses] :
         subscriptions = [id \in DOMAIN Subscriptions0 |->
                            [Subscriptions0[id] EXCEPT !.status = st[id]]]
    /\ webhooks = Webhooks0
    /\ api_keys = ApiKeys0
    /\ deliveries = << >>
    /\ dlq = << >>
    /\ timers = EmptyBag
    /\ runs = EmptyBag
    /\ returned = {}
    /\ got = NoGot
    /\ last = [s \in RegistrySubscribers |-> NoLast]
    /\ resp = NoResp
    /\ rp = NoRp
    /\ agentProc = NoAgentProc
    /\ InitQuiet

NextPublish ==
    \/ \E auth \in Callers : \E channel_id \in {"ch_1", "ch_2", "ch_X"} :
         \E payload \in Payloads : PushSignalCheck(auth, channel_id, payload)
    \/ PushSignalCommit
    \/ \E auth \in Callers : \E id \in {"ch_1", "ch_2", "ch_X"} :
         DeleteChannel(auth, id)

SpecPublish == InitPublish /\ [][NextPublish]_vars

----------------------------------------------------------------------------
(* A delivery to an agent whose channel fills up *)

(* ping_task lines 110-119: every 30 s a ping goes into the channel; the
   task waits while the channel is full and ends when it is closed *)
Heartbeat(c) ==
    /\ conns[c].pc = "live"
    /\ ~ChanClosed(c)
    /\ ~ChanFull(c)
    /\ conns' = ChanPush(c, PingMsg)
    /\ UNCHANGED << dbVars, deliveries, dlq, queues, timers, runs, returned,
                    endpoint, agents, got, last, resp, rp, agentProc >>

(* One job for the subscription of sub_T, whose agent is connected *)
InitBackpressure ==
    /\ InitTables
    /\ rp = NoRp
    /\ agentProc = NoAgentProc
    /\ signals = [id \in {"sig_1"} |-> SignalRow("ch_1", "normal")]
    /\ endpoint = [id \in DOMAIN Webhooks0 |-> 503]
    /\ queues = [l \in Lanes |->
                   IF l = "delivery-normal"
                   THEN SetToBag({Job("sig_1", "sbn_T", None, 0)})
                   ELSE EmptyBag]
    /\ agents = {[subscriber_id |-> "sub_T", connection_id |-> ConnOf("sub_T")]}
    /\ conns = [c \in ConnIds |->
                  IF c = ConnOf("sub_T") THEN LiveConn("sub_T") ELSE NoConn]

NextBackpressure ==
    \/ Dispatch
    \/ \E run \in Running : Route(run)
    \/ \E run \in Running : TunnelCreate(run)
    \/ \E run \in Running : TunnelSend(run)
    \/ \E run \in Running : TunnelMarkSuccess(run)
    \/ \E run \in Running : TunnelCountSuccess(run)
    \/ \E run \in Running : TunnelFailMark(run)
    \/ \E run \in Running : TunnelFailCount(run)
    \/ \E run \in Running : TunnelFailPolicy(run)
    \/ RequeueFire
    \/ \E c \in ConnIds : WriterSend(c)
    \/ \E c \in ConnIds : Heartbeat(c)

SpecBackpressure == InitBackpressure /\ [][NextBackpressure]_vars

----------------------------------------------------------------------------
(* Views of the state used by the properties *)

Pairs == {"sig_1"} \X DOMAIN Subscriptions0

RowsOf(signal_id, subscription_id, mode, status) ==
    {d \in DOMAIN deliveries :
        /\ deliveries[d].signal_id = signal_id
        /\ deliveries[d].subscription_id = subscription_id
        /\ deliveries[d].mode = mode
        /\ deliveries[d].status = status}

DlqOf(signal_id, subscription_id) ==
    {e \in DOMAIN dlq : /\ dlq[e].signal_id = signal_id
                        /\ dlq[e].subscription_id = subscription_id}

QueuedJobs == UNION {BagToSet(queues[l]) : l \in Lanes}
TimerJobs == {t.job : t \in BagToSet(timers)}
RunningJobs == {run.job : run \in Running}
PendingJobs == QueuedJobs \cup TimerJobs \cup RunningJobs

(* Nothing of the pair is queued, scheduled or running *)
Quiescent(signal_id, subscription_id) ==
    \A job \in PendingJobs :
        ~(job.signal_id = signal_id /\ job.subscription_id = subscription_id)

----------------------------------------------------------------------------
(* C1: for a pair delivered by webhook whose attempts all fail, the worker
   makes six failed webhook deliveries, attempts 0..5 once each, creates
   exactly one dead-letter entry, on the failure of attempt 5 and naming
   that delivery, and no job ever carries attempt 6 or more. *)
C1_DlqTerminal ==
    /\ \A job \in PendingJobs : job.attempt <= 5
    /\ \A p \in Pairs :
         LET sig == p[1]
             sub == p[2]
             failed == RowsOf(sig, sub, "webhook", "failed")
         IN Subscriptions0[sub].webhook_id # None =>
              /\ Cardinality(DlqOf(sig, sub)) <= 1
              /\ \A e \in DlqOf(sig, sub) :
                   /\ dlq[e].delivery_id \in failed
                   /\ deliveries[dlq[e].delivery_id].attempt = 5
                   /\ {deliveries[d].attempt : d \in failed} = 0 .. 5
                   /\ Cardinality(failed) = 6
                   /\ Quiescent(sig, sub)
              /\ ( /\ Quiescent(sig, sub)
                   /\ failed # {}
                   /\ RowsOf(sig, sub, "webhook", "success") = {}
                   /\ RowsOf(sig, sub, "agent", "success") = {} )
                 => Cardinality(DlqOf(sig, sub)) = 1

C1_Witness ==
    /\ DlqOf("sig_1", "sbn_F") # {}
    /\ Cardinality(RowsOf("sig_1", "sbn_F", "webhook", "failed")) = 6

----------------------------------------------------------------------------
(* C2: at every point of every interleaving of the jobs of a signal,
   delivery_count = delivered_count + failed_count; and once no attempt is
   in progress, every delivery row is terminal and each has added 1 to
   delivery_count and 1 to the counter of its outcome, so the counters are
   the numbers of success and of failed rows. *)
RowsWithStatus(signal_id, status) ==
    {d \in DOMAIN deliveries : /\ deliveries[d].signal_id = signal_id
                               /\ deliveries[d].status = status}

C2_CounterConsistency ==
    \A sig \in DOMAIN signals :
        /\ signals[sig].delivery_count =
             signals[sig].delivered_count + signals[sig].failed_count
        /\ Running = {} =>
             /\ RowsWithStatus(sig, "pending") = {}
             /\ signals[sig].delivered_count =
                  Cardinality(RowsWithStatus(sig, "success"))
             /\ signals[sig].failed_count =
                  Cardinality(RowsWithStatus(sig, "failed"))
             /\ signals[sig].delivery_count =
                  Cardinality({d \in DOMAIN deliveries :
                                 deliveries[d].signal_id = sig})

(* Both subscriptions have had attempts, some succeeded and some failed,
   and nothing is in progress *)
C2_Witness ==
    /\ Running = {}
    /\ signals["sig_1"].delivered_count >= 2
    /\ signals["sig_1"].failed_count >= 2
    /\ \E d \in DOMAIN deliveries : deliveries[d].subscription_id = "sbn_T"
    /\ \E d \in DOMAIN deliveries : deliveries[d].subscription_id = "sbn_F"

----------------------------------------------------------------------------
(* C6: every job a failure handler requeues, from the webhook path and
   from the tunnel path and at every attempt, waits for and lands on
   delivery-high when its signal is high or critical and on
   delivery-normal when it is low or normal; no later attempt of a signal
   is on another lane. *)
LaneOfUrgency(urgency) ==
    CASE urgency = "low" -> "delivery-normal"
      [] urgency = "normal" -> "delivery-normal"
      [] urgency = "high" -> "delivery-high"
      [] urgency = "critical" -> "delivery-high"

C6_RequeueLane ==
    /\ \A t \in BagToSet(timers) :
         /\ t.job.attempt >= 1
         /\ t.queue = LaneOfUrgency(signals[t.job.signal_id].urgency)
    /\ \A l \in Lanes : \A job \in BagToSet(queues[l]) :
         job.attempt >= 1 => l = LaneOfUrgency(signals[job.signal_id].urgency)
    /\ \A run \in Running :
         run.job.attempt >= 1 => run.lane = LaneOfUrgency(UrgencyOf(run))

(* A critical signal with a requeue of the tunnel path and a requeue of the
   webhook path both scheduled, past the first attempt *)
C6_Witness ==
    /\ signals["sig_1"].urgency = "critical"
    /\ \E t \in BagToSet(timers) :
         /\ t.job.subscription_id = "sbn_T" /\ t.job.attempt >= 2
         /\ t.queue = "delivery-high"
    /\ \E t \in BagToSet(timers) :
         /\ t.job.subscription_id = "sbn_F" /\ t.job.attempt >= 2
         /\ t.queue = "delivery-high"

----------------------------------------------------------------------------
(* C7: every call of handle_delivery_job in which a tunnel or a webhook
   attempt failed returns Ok to the queue, having scheduled at most one
   requeue or DLQ entry; also when the tunnel send failed for a
   subscription without a webhook_id. *)
C7_FailuresReturnOk ==
    \A o \in returned :
        o.n_failed > 0 =>
            /\ o.result = "ret_ok"
            /\ o.n_requeue + o.n_dlq <= 1

----------------------------------------------------------------------------
(* C10: when the tunnel send fails for a subscription with a webhook_id,
   the job has an agent delivery row marked failed for its attempt, it
   schedules no requeue and makes no DLQ entry for that failure, and it
   goes on to a webhook delivery row with the same attempt number; the
   call returns Ok. *)
FellThrough(run) == run.tunnel = "failed" /\ SubOf(run).webhook_id # None

AgentRowFailed(job) ==
    \E d \in RowsOf(job.signal_id, job.subscription_id, "agent", "failed") :
        deliveries[d].attempt = job.attempt

WebhookRowOf(job) ==
    {d \in DOMAIN deliveries :
        /\ deliveries[d].signal_id = job.signal_id
        /\ deliveries[d].subscription_id = job.subscription_id
        /\ deliveries[d].mode = "webhook"
        /\ deliveries[d].attempt = job.attempt}

C10_TunnelFallthrough ==
    /\ \A run \in Running :
         FellThrough(run) =>
            /\ AgentRowFailed(run.job)
            /\ run.pc \in {"tf_count", "tf_policy", "w_create", "w_post",
                           "w_count", "w_reset", "wf_count", "wf_bump",
                           "wf_policy"}
            /\ run.pc \in {"tf_count", "tf_policy", "w_create", "w_post"}
                 => run.n_requeue = 0 /\ run.n_dlq = 0
            /\ run.pc \in {"w_post", "w_count", "w_reset", "wf_count",
                           "wf_bump", "wf_policy"}
                 => /\ run.delivery \in WebhookRowOf(run.job)
                    /\ run.webhook = SubOf(run).webhook_id
    /\ \A e \in DOMAIN dlq :
         subscriptions[dlq[e].subscription_id].webhook_id # None
            => deliveries[dlq[e].delivery_id].mode = "webhook"
    /\ \A o \in returned :
         (o.tunnel = "failed" /\ o.job.webhook_id # None) =>
            /\ o.result = "ret_ok"
            /\ AgentRowFailed(o.job)
            /\ WebhookRowOf(o.job) # {}
            /\ o.n_requeue + o.n_dlq = o.n_failed - 1

(* A job whose tunnel send failed has delivered by webhook *)
C10_Witness ==
    \E o \in returned :
        /\ o.tunnel = "failed" /\ o.job.webhook_id # None
        /\ o.n_failed = 1
        /\ \E d \in WebhookRowOf(o.job) : deliveries[d].status = "success"

----------------------------------------------------------------------------
(* C5, as stated: the delay of attempt n is 0, 60, 300, 1800, 7200, 7200
   seconds for n = 0..5 and 21600 seconds for every n >= 6. *)
C5_DelayTableAsStated ==
    rp.done =>
        rp.result = CASE rp.arg = 0 -> 0
                      [] rp.arg = 1 -> 60
                      [] rp.arg = 2 -> 300
                      [] rp.arg = 3 -> 1800
                      [] rp.arg \in {4, 5} -> 7200
                      [] OTHER -> 21600

(* C5, amended: the delay of attempt n is 0, 60, 300, 1800, 7200 seconds
   for n = 0..4 and 21600 seconds for every n >= 5. *)
C5_DelayTable ==
    rp.done =>
        /\ rp.arg = 0 => rp.result = 0
        /\ rp.arg = 1 => rp.result = 60
        /\ rp.arg = 2 => rp.result = 300
        /\ rp.arg = 3 => rp.result = 1800
        /\ rp.arg = 4 => rp.result = 7200
        /\ rp.arg >= 5 => rp.result = 21600

(* retry_policy has been called with 5 *)
C5_Witness == rp.done /\ rp.arg = 5 /\ rp.result = 21600

----------------------------------------------------------------------------
(* C3: after a successful push_signal on a channel, each active
   subscription of the channel has exactly one job of the new signal, with
   attempt 0 and the subscription's webhook_id, on delivery-high when the
   urgency is high or critical and on delivery-normal otherwise; the two
   lanes hold no other job of the signal, so paused and canceled
   subscriptions have none. *)
ActiveSubscriptions(channel_id) ==
    {id \in DOMAIN subscriptions :
        /\ subscriptions[id].channel_id = channel_id
        /\ subscriptions[id].status = "active"}

JobsOfSignal(lane, signal_id) ==
    {job \in BagToSet(queues[lane]) : job.signal_id = signal_id}

C3_FanOut ==
    resp.status = "ok" =>
        LET lane == LaneOfUrgency(resp.urgency)
            expected == {Job(resp.signal_id, id, subscriptions[id].webhook_id, 0)
                         : id \in ActiveSubscriptions(resp.channel_id)}
        IN /\ JobsOfSignal(lane, resp.signal_id) = expected
           /\ \A job \in expected : CopiesIn(job, queues[lane]) = 1
           /\ \A l \in Lanes \ {lane} : JobsOfSignal(l, resp.signal_id) = {}

----------------------------------------------------------------------------
(* C4: a delivery job never waits at the send to an agent's channel: when
   the channel holds 64 messages the push fails at once. *)
C4_SendNeverBlocks ==
    \A run \in Running : run.pc # "t_blocked"

----------------------------------------------------------------------------
(* C8: the registry holds at most one connection per subscriber; get(s)
   is the connection of the most recent register(s), also when that call
   replaced an earlier connection, and none when s was never registered
   or unregister(s) came after. *)
C8_LastWriterWins ==
    /\ \A s \in RegistrySubscribers :
         /\ Cardinality({e \in agents : e.subscriber_id = s}) <= 1
         /\ RegistryGet(s) = last[s].connection_id
    /\ \A e \in agents : e.subscriber_id \in RegistrySubscribers
    /\ got.result = got.expected

(* get(sub_T) has answered conn_2, registered over conn_1, and sub_F has
   no connection after the unregister that removed conn_3 *)
C8_Witness ==
    /\ got.subscriber_id = "sub_T" /\ got.result = "conn_2"
    /\ last["sub_T"] = [connection_id |-> "conn_2", replaced |-> "conn_1",
                        op |-> "register"]
    /\ last["sub_F"] = [connection_id |-> None, replaced |-> "conn_3",
                        op |-> "unregister"]
    /\ RegistryGet("sub_F") = None

----------------------------------------------------------------------------
(* C9: a session goes past authentication - is registered, is sent
   auth_ok, is Live - only with an auth frame whose token hashes to a key
   that is active and owned by a subscriber when it is looked up, and it
   is registered under that owner; a session whose first frame carries
   the empty token, a publisher's, a revoked or an unknown key is answered
   auth_error, ends, and is never in the registry. *)
Admitted(c) ==
    \/ conns[c].pc \in {"authed", "registered", "live"}
    \/ "auth_ok" \in conns[c].replies
    \/ \E e \in agents : e.connection_id = c

RefusedTokens == {"", "tok_P", "tok_R", "tok_U"}

C9_StatePart ==
    \A c \in ConnIds :
        /\ Admitted(c) =>
             /\ conns[c].frame.kind = "auth"
             /\ conns[c].auth_key.key_hash = hash_api_key(conns[c].frame.token)
             /\ conns[c].auth_key.status = "active"
             /\ conns[c].auth_key.owner_type = "subscriber"
             /\ conns[c].subscriber_id = conns[c].auth_key.owner_id
             /\ \A e \in agents :
                  e.connection_id = c => e.subscriber_id = conns[c].subscriber_id
        /\ ( /\ conns[c].frame.kind = "auth"
             /\ conns[c].frame.token \in RefusedTokens ) =>
             /\ conns[c].pc = "closed"
             /\ conns[c].replies = {"auth_error"}
             /\ ~Admitted(c)

C9_StepPart ==
    \A c \in ConnIds :
        (conns[c].pc = "wait_auth" /\ conns'[c].pc # "wait_auth") =>
            IF \E k \in api_keys :
                  /\ conns'[c].frame.kind = "auth"
                  /\ conns'[c].frame.token # ""
                  /\ k.key_hash = hash_api_key(conns'[c].frame.token)
                  /\ k.status = "active"
                  /\ k.owner_type = "subscriber"
                  /\ conns'[c].subscriber_id = k.owner_id
            THEN conns'[c].pc = "authed"
            ELSE /\ conns'[c].pc = "closed"
                 /\ conns'[c].replies = {"auth_error"}

C9_TunnelAuth == [](C9_StatePart) /\ [][C9_StepPart]_vars

(* One session is Live for sub_T, registered and answered auth_ok, while
   the sessions with the publisher's key and with the revoked key were
   refused *)
C9_Witness ==
    /\ conns["conn_1"].pc = "live"
    /\ "auth_ok" \in conns["conn_1"].replies
    /\ [subscriber_id |-> "sub_T", connection_id |-> "conn_1"] \in agents
    /\ conns["conn_2"].frame = AuthFrameOf("tok_P")
    /\ conns["conn_2"].replies = {"auth_error"}
    /\ conns["conn_3"].frame = AuthFrameOf("tok_R")
    /\ conns["conn_3"].replies = {"auth_error"}

----------------------------------------------------------------------------
(* C11: when the tunnel send of a job succeeds, that step puts exactly one
   signal message, naming the job's agent delivery, on the channel of the
   registered connection; no channel ever holds two messages of one
   delivery; the job ends Ok with one agent delivery row of its attempt,
   status success, no failed attempt and no webhook row of its attempt,
   also when the subscription has a webhook_id. *)
SignalsIn(c, delivery_id) ==
    {i \in 1 .. Len(conns[c].outbound) :
        conns[c].outbound[i] = SignalMsg(delivery_id)}

AgentRowsOf(job) ==
    {d \in DOMAIN deliveries :
        /\ deliveries[d].signal_id = job.signal_id
        /\ deliveries[d].subscription_id = job.subscription_id
        /\ deliveries[d].mode = "agent"
        /\ deliveries[d].attempt = job.attempt}

C11_StatePart ==
    /\ \A c \in ConnIds : \A d \in DOMAIN deliveries :
         Cardinality(SignalsIn(c, d)) <= 1
    /\ \A run \in Running :
         run.pc \in {"t_mark", "t_count"} =>
            /\ run.webhook = None
            /\ AgentRowsOf(run.job) = {run.delivery}
            /\ WebhookRowOf(run.job) = {}
            /\ run.pc = "t_count" => deliveries[run.delivery].status = "success"
    /\ \A o \in returned :
         o.tunnel = "sent" =>
            /\ o.result = "ret_ok"
            /\ o.n_failed = 0 /\ o.n_requeue = 0 /\ o.n_dlq = 0
            /\ Cardinality(AgentRowsOf(o.job)) = 1
            /\ \A d \in AgentRowsOf(o.job) : deliveries[d].status = "success"
            /\ WebhookRowOf(o.job) = {}

C11_StepPart ==
    \A run \in Running :
        ( /\ run.pc \in {"t_send", "t_blocked"}
          /\ [run EXCEPT !.pc = "t_mark"] \in BagToSet(runs') ) =>
            /\ conns'[run.agent].outbound =
                 Append(conns[run.agent].outbound, SignalMsg(run.delivery))
            /\ \A c \in ConnIds \ {run.agent} : conns'[c] = conns[c]
            /\ run.agent = RegistryGet(SubOf(run).subscriber_id)

C11_TunnelSuccess == [](C11_StatePart) /\ [][C11_StepPart]_vars

(* A job of the subscription with a webhook was delivered through the
   tunnel *)
C11_Witness ==
    \E o \in returned :
        /\ o.tunnel = "sent"
        /\ o.job.webhook_id # None
        /\ \E d \in AgentRowsOf(o.job) : deliveries[d].status = "success"

----------------------------------------------------------------------------
(* C12: failure_count of a webhook changes only in two steps: the step
   after a failed webhook attempt adds exactly 1, and the step after a
   successful webhook delivery sets it to 0; a tunnel failure never
   changes it.  So it is the number of failed webhook attempts while none
   has succeeded, and 0 once one has, however many failed before. *)
WebhookRows(webhook_id, status) ==
    {d \in DOMAIN deliveries :
        /\ deliveries[d].mode = "webhook"
        /\ deliveries[d].webhook_id = webhook_id
        /\ deliveries[d].status = status}

RunsAt(webhook_id, pcs) ==
    {run \in Running : run.webhook = webhook_id /\ run.pc \in pcs}

C12_StatePart ==
    \A w \in DOMAIN webhooks :
        /\ ( /\ WebhookRows(w, "success") = {} )
             => webhooks[w].failure_count =
                  Cardinality(WebhookRows(w, "failed"))
                    - Cardinality(RunsAt(w, {"wf_count", "wf_bump"}))
        /\ ( /\ WebhookRows(w, "success") # {}
             /\ RunsAt(w, {"w_count", "w_reset"}) = {} )
             => webhooks[w].failure_count = 0

C12_StepPart ==
    webhooks' # webhooks =>
        \E run \in Running :
            \/ /\ run.pc = "wf_bump"
               /\ deliveries[run.delivery].mode = "webhook"
               /\ deliveries[run.delivery].status = "failed"
               /\ webhooks' = [webhooks EXCEPT
                                 ![run.webhook].failure_count = @ + 1]
            \/ /\ run.pc = "w_reset"
               /\ deliveries[run.delivery].mode = "webhook"
               /\ deliveries[run.delivery].status = "success"
               /\ webhooks' = [webhooks EXCEPT
                                 ![run.webhook].failure_count = 0]

C12_FailureCount == [](C12_StatePart) /\ [][C12_StepPart]_vars

(* The webhook succeeded after three failed attempts and a failed tunnel
   attempt, and its failure_count is 0 *)
C12_Witness ==
    /\ Cardinality(WebhookRows("wh_F", "failed")) = 3
    /\ WebhookRows("wh_F", "success") # {}
    /\ RowsOf("sig_1", "sbn_F", "agent", "failed") # {}
    /\ Running = {}
    /\ webhooks["wh_F"].failure_count = 0

(***************************************************************************)
(* C13: a publish by a caller whose auth context is subscriber-owned is    *)
(* answered forbidden, and the step that answers it leaves the signal      *)
(* rows, every channel row (signal_count with it) and both queues as they  *)
(* were.                                                                   *)
(***************************************************************************)
C13_SubscriberForbidden ==
    [][(resp' # resp /\ resp'.caller.owner_type = "subscriber")
          => /\ resp'.status = "forbidden"
             /\ signals' = signals
             /\ channels' = channels
             /\ queues' = queues]_vars

C13_Witness ==
    /\ resp.caller.owner_type = "subscriber"
    /\ resp.status = "forbidden"
    /\ resp.channel_id \in DOMAIN channels
    /\ channels[resp.channel_id].status = "active"

(***************************************************************************)
(* C14: a signal row is only ever added for a channel whose status is      *)
(* active at the moment the row is added, whatever happens to the channel  *)
(* between the handler's read of the status and its insert.                *)
(***************************************************************************)
C14_NoSignalOffActive ==
    [][\A id \in DOMAIN signals' \ DOMAIN signals :
          channels[signals'[id].channel_id].status = "active"]_vars

(***************************************************************************)
(* C15: in every reachable state, a failed publish included, each          *)
(* channel's signal_count is the number of signal rows of that channel.    *)
(***************************************************************************)
SignalsOfChannel(channel_id) ==
    {id \in DOMAIN signals : signals[id].channel_id = channel_id}

C15_SignalCountAtomic ==
    \A channel_id \in DOMAIN channels :
        channels[channel_id].signal_count =
            Cardinality(SignalsOfChannel(channel_id))

C15_Witness ==
    /\ resp.status = "internal"
    /\ SignalsOfChannel(resp.channel_id) # {}
    /\ resp.signal_id \notin DOMAIN signals

----------------------------------------------------------------------------
(* The life of tunnel sessions: handshake, read loop, heartbeat, writer *)

MaxPings == 2

(* Entries of the registry that hold a Sender of the session's channel *)
RegisteredAs(c) == {a \in agents : a.connection_id = c}

(* A read loop that ends the session on an auth message after the
   handshake *)
ReadFrame_CloseOnAuth(c, frame) ==
    /\ conns[c].pc = "live"
    /\ IF frame.kind = "auth"
       THEN /\ agents' = RegistryRemove(conns[c].subscriber_id)
            /\ conns' = [conns EXCEPT ![c].frame = frame, ![c].pc = "closed"]
       ELSE /\ conns' = [conns EXCEPT ![c].frame = frame]
            /\ UNCHANGED agents
    /\ UNCHANGED << dbVars, deliveries, dlq, queues, timers, runs, returned,
                    endpoint, got, last, resp, rp, agentProc >>

(* Lines 127-136 and handle_client_message 181-200: the read loop takes a
   text frame of the client; whatever it parses to, it is logged at most.
   The session keeps the frame it read last. *)
ReadFrame(c, frame) ==
    /\ conns[c].pc = "live"
    /\ conns' = [conns EXCEPT ![c].frame = frame]
    /\ UNCHANGED << dbVars, deliveries, dlq, queues, timers, runs, returned,
                    endpoint, agents, got, last, resp, rp, agentProc >>

(* A frame of a Live client: one that does not parse, or an auth message *)
ClientFrame(c) ==
    \E frame \in {OtherFrame, AuthFrameOf("tok_T")} : ReadFrame(c, frame)

(* The 30 s tick of ping_task, for as long as the model lets pings pile up *)
HeartbeatTick(c) ==
    /\ Len(conns[c].outbound) < MaxPings
    /\ Heartbeat(c)

(* send_task line 36: recv() returns None once the buffer is empty and every
   Sender is gone (the handler's, dropped when it leaves; ping_tx, dropped
   with the aborted task; the clone in the registry; the clone a delivery
   works with), and the task ends.  The handler, waiting on send_task,
   returns. *)
WriterEnd(c) ==
    /\ conns[c].rx_open
    /\ conns[c].outbound = << >>
    /\ conns[c].pc = "closed"
    /\ RegisteredAs(c) = {}
    /\ \A run \in Running : run.agent # c
    /\ conns' = [conns EXCEPT ![c].rx_open = FALSE, ![c].writer = "done"]
    /\ UNCHANGED << dbVars, deliveries, dlq, queues, timers, runs, returned,
                    endpoint, agents, got, last, resp, rp, agentProc >>

(* Two clients connect, each once *)
SessionConns == {"conn_1", "conn_2"}

InitSession == InitTunnel

NextSession ==
    \/ \E c \in SessionConns : Connect(c)
    \/ \E c \in SessionConns : AuthFrame(c)
    \/ \E c \in SessionConns : SessionRegister(c)
    \/ \E c \in SessionConns : SendAuthOk(c)
    \/ \E c \in SessionConns : ClientFrame(c)
    \/ \E c \in SessionConns : HeartbeatTick(c)
    \/ \E c \in SessionConns : SessionClose(c)
    \/ \E c \in SessionConns : WriterSend(c)
    \/ \E c \in SessionConns : WriterEnd(c)

SpecSession == InitSession /\ [][NextSession]_vars

(***************************************************************************)
(* C16: when the first frame of a connection is no valid auth message, or  *)
(* authenticate refuses the token, the handler puts exactly one auth_error *)
(* into the channel and is done: the session is closed, it has no          *)
(* subscriber, no entry of the registry names it, no auth_ok and no ping   *)
(* ever enters its channel, and no later frame of the client is read.      *)
(***************************************************************************)
Refused(c) == "auth_error" \in conns[c].replies

ValidAuth(frame) == frame.kind = "auth" /\ authenticate(frame.token).ok

C16_StatePart ==
    \A c \in ConnIds :
        Refused(c) =>
            /\ conns[c].pc = "closed"
            /\ conns[c].replies = {"auth_error"}
            /\ conns[c].subscriber_id = None
            /\ RegisteredAs(c) = {}
            /\ conns[c].outbound \in {<< >>, << AuthErrorMsg >>}

C16_StepPart ==
    \A c \in ConnIds :
        /\ (conns[c].pc = "wait_auth" /\ conns'[c] # conns[c]
              /\ ~ValidAuth(conns'[c].frame))
             => /\ conns'[c].replies = {"auth_error"}
                /\ conns'[c].outbound = << AuthErrorMsg >>
        /\ Refused(c) =>
             /\ conns'[c].frame = conns[c].frame
             /\ conns'[c].pc = conns[c].pc
             /\ Len(conns'[c].outbound) <= Len(conns[c].outbound)

C16_AuthRefusal == [](C16_StatePart) /\ [][C16_StepPart]_vars

C16_Witness ==
    \E c1, c2 \in ConnIds :
        /\ Refused(c1) /\ conns[c1].frame.kind = "auth"
        /\ conns[c1].writer = "done"
        /\ Refused(c2) /\ conns[c2].frame.kind = "other"

(* The handler, the writer and the registry take their steps; what the
   client does (connect, send a frame, close) and the clock of the heartbeat
   come when they come *)
SpecSessionFair ==
    /\ SpecSession
    /\ \A c \in SessionConns :
         /\ WF_vars(SessionRegister(c))
         /\ WF_vars(SendAuthOk(c))
         /\ WF_vars(WriterSend(c))
         /\ WF_vars(WriterEnd(c))

(***************************************************************************)
(* C17: a session that was Live and whose read loop has ended (close       *)
(* frame, read error), or whose writer has failed, eventually is           *)
(* unregistered, with its writer task over and its handler returned.       *)
(***************************************************************************)
WasLive(c) == conns[c].subscriber_id # None /\ conns[c].pc \in {"live", "closed"}

ReadEnded(c) == WasLive(c) /\ conns[c].pc = "closed"

WriterFailed(c) == WasLive(c) /\ conns[c].writer = "failed"

Cleaned(c) ==
    /\ RegisteredAs(c) = {}
    /\ conns[c].pc = "closed"
    /\ conns[c].writer \in {"failed", "done"}

C17_SessionCleanup ==
    \A c \in SessionConns : (ReadEnded(c) \/ WriterFailed(c)) ~> Cleaned(c)

----------------------------------------------------------------------------
(* Delivery under fair scheduling *)

(* The detached requeue task wakes up and storage.push returns Err; the
   task drops the result (let _ =) and ends *)
RequeueLost ==
    \E t \in BagToSet(timers) :
        /\ timers' = timers (-) SetToBag({t})
        /\ UNCHANGED << dbVars, deliveries, dlq, queues, runs, returned,
                        endpoint, agents, conns, got, last, resp, rp, agentProc >>

NextDeliveryFair ==
    \/ Dispatch
    \/ \E run \in Running : Route(run)
    \/ \E run \in Running : TunnelCreate(run)
    \/ \E run \in Running : TunnelSend(run)
    \/ \E run \in Running : TunnelMarkSuccess(run)
    \/ \E run \in Running : TunnelCountSuccess(run)
    \/ \E run \in Running : TunnelFailMark(run)
    \/ \E run \in Running : TunnelFailCount(run)
    \/ \E run \in Running : TunnelFailPolicy(run)
    \/ \E run \in Running : WebhookCreate(run)
    \/ \E run \in Running : WebhookPost(run)
    \/ \E run \in Running : WebhookCountSuccess(run)
    \/ \E run \in Running : WebhookResetFailures(run)
    \/ \E run \in Running : WebhookFailCount(run)
    \/ \E run \in Running : WebhookFailBump(run)
    \/ \E run \in Running : WebhookFailPolicy(run)
    \/ RequeueFire
    \/ \E c \in ConnIds : WriterSend(c)
    \/ RequeueLost

(* No process dies: a queued job is taken by a worker, a worker that can
   take its next step takes it, a timer that is due wakes up, the writer of
   a session goes on *)
SpecDeliveryFair ==
    /\ InitDelivery
    /\ [][NextDeliveryFair]_vars
    /\ WF_vars(Dispatch)
    /\ WF_vars(\E run \in Running : Route(run))
    /\ WF_vars(\E run \in Running : TunnelCreate(run))
    /\ WF_vars(\E run \in Running : TunnelSend(run))
    /\ WF_vars(\E run \in Running : TunnelMarkSuccess(run))
    /\ WF_vars(\E run \in Running : TunnelCountSuccess(run))
    /\ WF_vars(\E run \in Running : TunnelFailMark(run))
    /\ WF_vars(\E run \in Running : TunnelFailCount(run))
    /\ WF_vars(\E run \in Running : TunnelFailPolicy(run))
    /\ WF_vars(\E run \in Running : WebhookCreate(run))
    /\ WF_vars(\E run \in Running : WebhookPost(run))
    /\ WF_vars(\E run \in Running : WebhookCountSuccess(run))
    /\ WF_vars(\E run \in Running : WebhookResetFailures(run))
    /\ WF_vars(\E run \in Running : WebhookFailCount(run))
    /\ WF_vars(\E run \in Running : WebhookFailBump(run))
    /\ WF_vars(\E run \in Running : WebhookFailPolicy(run))
    /\ WF_vars(RequeueFire \/ RequeueLost)
    /\ WF_vars(\E c \in ConnIds : WriterSend(c))

(***************************************************************************)
(* C18: every pair that has a job queued, scheduled or running eventually  *)
(* has a delivery with status success or a dead-letter entry.              *)
(***************************************************************************)
HasJob(signal_id, subscription_id) == ~Quiescent(signal_id, subscription_id)

Ended(signal_id, subscription_id) ==
    \/ RowsOf(signal_id, subscription_id, "agent", "success") # {}
    \/ RowsOf(signal_id, subscription_id, "webhook", "success") # {}
    \/ DlqOf(signal_id, subscription_id) # {}

C18_EveryJobEnds ==
    \A p \in Pairs : HasJob(p[1], p[2]) ~> Ended(p[1], p[2])

----------------------------------------------------------------------------
(* Admin: retry of a dead-letter entry *)

MaxRetryRequests == 1

(* dead_letter_queue::resolve that leaves the row as it is *)
DlqResolve_Nothing(id) == dlq

(* dead_letter_queue::resolve: resolved_at = now() *)
DlqResolve(id) == [dlq EXCEPT ![id].resolved = TRUE]

(* What retry_dlq answered to which request *)
RetryResp(auth, status, id, request_id) ==
    [caller |-> auth, status |-> status, id |-> id,
     request_id |-> request_id]

(* Requests answered so far *)
RequestsSoFar == IF resp = NoResp THEN 0 ELSE resp.request_id

(* An id no entry has *)
NoDlqId == << "dlq", NoDelivery >>

(* retry_dlq: publishers only; the entry and its delivery are read, a job
   with attempt 0 is pushed on delivery-normal, then the entry is resolved.
   A failed push or a failed resolve returns Internal at once. *)
RetryDlqCall(auth, id) ==
    LET answer(status) ==
            resp' = RetryResp(auth, status, id, RequestsSoFar + 1)
        refuse(status) == answer(status) /\ UNCHANGED << queues, dlq >>
    IN
    /\ IF auth.owner_type # "publisher" THEN refuse("forbidden")
       ELSE IF id \notin DOMAIN dlq THEN refuse("not_found")
       ELSE IF dlq[id].delivery_id \notin DOMAIN deliveries
            THEN refuse("not_found")
       ELSE \E pushed, resolved \in BOOLEAN :
              IF ~pushed THEN refuse("internal")
              ELSE /\ queues' = QueuePush("delivery-normal",
                                   Job(dlq[id].signal_id,
                                       dlq[id].subscription_id,
                                       deliveries[dlq[id].delivery_id].webhook_id,
                                       0))
                   /\ IF resolved
                      THEN dlq' = DlqResolve(id) /\ answer("queued")
                      ELSE UNCHANGED dlq /\ answer("internal")
    /\ UNCHANGED << channels, signals, subscriptions, webhooks, api_keys,
                    deliveries, timers, runs, returned, endpoint, agents,
                    conns, got, last, rp, agentProc >>

(* One request, for as long as the model takes requests *)
RetryDlq(auth, id) ==
    /\ RequestsSoFar < MaxRetryRequests
    /\ RetryDlqCall(auth, id)

(* One job of one subscription is on its way *)
InitDlqRetry ==
    /\ InitDelivery
    /\ Cardinality(QueuedJobs) = 1

NextDlqRetry ==
    \/ Dispatch
    \/ \E run \in Running : Route(run)
    \/ \E run \in Running : TunnelCreate(run)
    \/ \E run \in Running : TunnelSend(run)
    \/ \E run \in Running : TunnelMarkSuccess(run)
    \/ \E run \in Running : TunnelCountSuccess(run)
    \/ \E run \in Running : TunnelFailMark(run)
    \/ \E run \in Running : TunnelFailCount(run)
    \/ \E run \in Running : TunnelFailPolicy(run)
    \/ \E run \in Running : WebhookCreate(run)
    \/ \E run \in Running : WebhookPost(run)
    \/ \E run \in Running : WebhookCountSuccess(run)
    \/ \E run \in Running : WebhookResetFailures(run)
    \/ \E run \in Running : WebhookFailCount(run)
    \/ \E run \in Running : WebhookFailBump(run)
    \/ \E run \in Running : WebhookFailPolicy(run)
    \/ RequeueFire
    \/ \E c \in ConnIds : WriterSend(c)
    \/ \E auth \in Callers : \E id \in DOMAIN dlq \cup {NoDlqId} :
         RetryDlq(auth, id)

SpecDlqRetry == InitDlqRetry /\ [][NextDlqRetry]_vars

(***************************************************************************)
(* C19: a retry that answers queued has added exactly one job to           *)
(* delivery-normal, with attempt 0 and the signal and subscription of the  *)
(* entry, has left delivery-high alone and has marked the entry resolved;  *)
(* a retry whose push did not reach the queue leaves the entry as it was,  *)
(* and no entry becomes resolved in a step that pushes nothing.            *)
(***************************************************************************)
C19_StepPart ==
    /\ (resp' # resp /\ resp'.status = "queued") =>
         LET id == resp'.id
             added == queues'["delivery-normal"] (-) queues["delivery-normal"]
         IN /\ id \in DOMAIN dlq
            /\ dlq'[id].resolved
            /\ BagCardinality(added) = 1
            /\ queues'["delivery-normal"] = queues["delivery-normal"] (+) added
            /\ \A job \in BagToSet(added) :
                 /\ job.attempt = 0
                 /\ job.signal_id = dlq[id].signal_id
                 /\ job.subscription_id = dlq[id].subscription_id
            /\ queues'["delivery-high"] = queues["delivery-high"]
    /\ (resp' # resp /\ queues' = queues) => dlq' = dlq
    /\ \A id \in DOMAIN dlq :
         (~dlq[id].resolved /\ dlq'[id].resolved) => queues' # queues

C19_DlqRetry == [][C19_StepPart]_vars

C19_Witness ==
    /\ resp # NoResp
    /\ resp.status = "queued"
    /\ dlq[resp.id].resolved
    /\ signals[dlq[resp.id].signal_id].urgency = "critical"
    /\ \E run \in Running :
         /\ run.job.attempt = 0
         /\ run.lane = "delivery-normal"
         /\ run.job.subscription_id = dlq[resp.id].subscription_id

----------------------------------------------------------------------------
(* Webhook signatures: sign_payload and verify_signature *)

(* Secrets by their bytes (secret.as_bytes()): empty, one byte, the same
   byte followed by a NUL, another byte *)
Secrets == {<< >>, << 1 >>, << 1, 0 >>, << 2 >>}
Timestamps == {-1, 0, 1707379800}
Bodies == {"", "body", "0.body"}

(* Hmac::new_from_slice: a key no longer than a block is filled up with
   zero bytes to the block, so trailing zero bytes of the key do not count *)
RECURSIVE DerivedKey(_)
DerivedKey(key) ==
    IF key # << >> /\ key[Len(key)] = 0
    THEN DerivedKey(SubSeq(key, 1, Len(key) - 1))
    ELSE key

(* HMAC-SHA256 of data under key, as a value that names the derived key
   and the data *)
hmac_sha256(key, data) == [mac |-> "hmac-sha256", key |-> DerivedKey(key),
                           data |-> data]

(* format!("{:x}", bytes): the 64 hex digits, as one token of the text *)
LowerHex(bytes) == [hex |-> bytes]

(* sign_payload: "sha256=" and the hex of the HMAC of "<timestamp>.<body>",
   a text of two tokens *)
sign_payload(secret, timestamp, body) ==
    << [prefix |-> "sha256="],
       LowerHex(hmac_sha256(secret, ToString(timestamp) \o "." \o body)) >>

(* A comparison that stops at the end of the shorter slice *)
ct_eq_Prefix(a, b) ==
    \A i \in 1 .. (IF Len(a) < Len(b) THEN Len(a) ELSE Len(b)) : a[i] = b[i]

(* ct_eq on byte slices: equal length and equal bytes *)
ct_eq(a, b) == Len(a) = Len(b) /\ \A i \in 1 .. Len(a) : a[i] = b[i]

(* A verifier that expects the bare hex, without the sha256= prefix *)
verify_signature_BareHex(secret, timestamp, body, signature) ==
    ct_eq(Tail(sign_payload(secret, timestamp, body)), signature)

(* verify_signature: the signature is compared with what sign_payload
   gives for the same secret, timestamp and body *)
verify_signature(secret, timestamp, body, signature) ==
    ct_eq(sign_payload(secret, timestamp, body), signature)

SignArgs(secret, timestamp, body) ==
    [secret |-> secret, timestamp |-> timestamp, body |-> body]

(* The worker signs a request (deliver_via_webhook line 113) *)
SignPayload(secret, timestamp, body) ==
    /\ resp' = [call |-> "sign", signed |-> SignArgs(secret, timestamp, body),
                args |-> SignArgs(secret, timestamp, body),
                signature |-> sign_payload(secret, timestamp, body),
                given |-> sign_payload(secret, timestamp, body),
                valid |-> FALSE]
    /\ UNCHANGED << dbVars, deliveries, dlq, queues, timers, runs, returned,
                    endpoint, agents, conns, got, last, rp, agentProc >>

(* A receiver checks the signature it was sent against a secret, a
   timestamp and a body *)
VerifySignature(secret, timestamp, body) ==
    /\ resp # NoResp
    /\ resp' = [resp EXCEPT
                  !.call = "verify",
                  !.args = SignArgs(secret, timestamp, body),
                  !.given = resp.signature,
                  !.valid = verify_signature(secret, timestamp, body,
                                             resp.signature)]
    /\ UNCHANGED << dbVars, deliveries, dlq, queues, timers, runs, returned,
                    endpoint, agents, conns, got, last, rp, agentProc >>

(* Texts a receiver may be handed in place of a signature: it without its
   prefix, cut after the prefix, with something appended, nothing at all,
   and the signature of another request *)
Altered(signature) ==
    { Tail(signature), << signature[1] >>,
      signature \o << [hex |-> "00"] >>, << >>,
      sign_payload(<< 2 >>, 0, "other") }

(* A receiver checks such a text against the secret, timestamp and body
   that were signed *)
VerifyAltered ==
    /\ resp # NoResp
    /\ \E signature \in Altered(resp.signature) :
         resp' = [resp EXCEPT
                    !.call = "verify",
                    !.args = resp.signed,
                    !.given = signature,
                    !.valid = verify_signature(resp.signed.secret,
                                               resp.signed.timestamp,
                                               resp.signed.body, signature)]
    /\ UNCHANGED << dbVars, deliveries, dlq, queues, timers, runs, returned,
                    endpoint, agents, conns, got, last, rp, agentProc >>

InitSign == InitTunnel

NextSign ==
    \/ \E secret \in Secrets : \E timestamp \in Timestamps :
         \E body \in Bodies : SignPayload(secret, timestamp, body)
    \/ \E secret \in Secrets : \E timestamp \in Timestamps :
         \E body \in Bodies : VerifySignature(secret, timestamp, body)
    \/ VerifyAltered

SpecSign == InitSign /\ [][NextSign]_vars

(***************************************************************************)
(* C20: a signature made by sign_payload for a secret, a timestamp and a   *)
(* body is accepted by verify_signature for the same three.                *)
(***************************************************************************)
C20_SignatureRoundTrip ==
    (resp # NoResp /\ resp.call = "verify" /\ resp.args = resp.signed
       /\ resp.given = resp.signature)
        => resp.valid

C20_Witness ==
    /\ resp # NoResp
    /\ resp.call = "verify"
    /\ resp.args = resp.signed
    /\ resp.given = resp.signature
    /\ resp.args = SignArgs(<< 1 >>, 1707379800, "body")
    /\ resp.valid

(***************************************************************************)
(* C21: a verification that differs from what was signed in exactly one of *)
(* secret, timestamp, body and signature returns false.  As stated it      *)
(* covers every other secret; it holds for every other secret whose HMAC   *)
(* key is another one.                                                     *)
(***************************************************************************)
Changed ==
    {f \in {"secret", "timestamp", "body"} : resp.args[f] # resp.signed[f]}
        \cup (IF resp.given # resp.signature THEN {"signature"} ELSE {})

OneChanged ==
    /\ resp # NoResp
    /\ resp.call = "verify"
    /\ Cardinality(Changed) = 1

C21_AnyChangeRejected == OneChanged => ~resp.valid

SameKey == DerivedKey(resp.args.secret) = DerivedKey(resp.signed.secret)

C21_ChangeRejected ==
    (OneChanged /\ ~(Changed = {"secret"} /\ SameKey)) => ~resp.valid

C21_Witness ==
    /\ OneChanged
    /\ Changed = {"signature"}
    /\ resp.given = Tail(resp.signature)
    /\ ~resp.valid

(***************************************************************************)
(* C22: retry_policy(n) is the n-th of 0, 60, 300, 1800, 7200 seconds for  *)
(* n = 0..4 and is capped at 21600 seconds from n = 5 on.                  *)
(***************************************************************************)
BackoffSteps == << 0, 60, 300, 1800, 7200 >>

C22_BackoffCap ==
    rp.done =>
        rp.result = IF rp.arg < Len(BackoffSteps)
                    THEN BackoffSteps[rp.arg + 1]
                    ELSE 21600

(* retry_policy has been called at the cap and far above it *)
C22_Witness == rp.done /\ rp.arg = MaxRetryArg /\ rp.result = 21600

(***************************************************************************)
(* C23: unregister can always be called, and a call for a subscriber id    *)
(* that has no entry leaves the registry exactly as it was: every other    *)
(* subscriber keeps its connection.                                        *)
(***************************************************************************)
UnregisterOf(s) == last'[s] # last[s] /\ last'[s].op = "unregister"

C23_StatePart ==
    \A s \in RegistrySubscribers : ENABLED RegistryUnregister(s)

C23_StepPart ==
    \A s \in RegistrySubscribers :
        (UnregisterOf(s) /\ RegistryGet(s) = None) =>
            /\ agents' = agents
            /\ \A t \in RegistrySubscribers :
                 RegistryGet(t)' = RegistryGet(t)

C23_UnregisterUnknown == [](C23_StatePart) /\ [][C23_StepPart]_vars

(* unregister(sub_X) has been called with no entry for sub_X, while sub_T
   and sub_F are registered *)
C23_Witness ==
    /\ last["sub_X"] = [connection_id |-> None, replaced |-> None,
                        op |-> "unregister"]
    /\ RegistryGet("sub_T") # None
    /\ RegistryGet("sub_F") # None

(***************************************************************************)
(* C24: register calls for different subscribers, interleaved in any order *)
(* with each other and with get calls, all take effect: a register leaves  *)
(* the entries of the other subscribers alone, a get changes no entry, and *)
(* every subscriber whose last call was a register is found by get with    *)
(* the connection of that call.                                            *)
(***************************************************************************)
RegisterOf(s) == last'[s] # last[s] /\ last'[s].op = "register"

C24_StatePart ==
    /\ \A s \in RegistrySubscribers :
         last[s].op = "register" =>
             /\ RegistryGet(s) = last[s].connection_id
             /\ RegistryGet(s) # None
    /\ got.expected # None => got.result = got.expected

C24_StepPart ==
    /\ \A s \in RegistrySubscribers :
         RegisterOf(s) =>
             \A t \in RegistrySubscribers \ {s} :
                 RegistryGet(t)' = RegistryGet(t)
    /\ got' # got => agents' = agents

C24_NoLostRegistration == [](C24_StatePart) /\ [][C24_StepPart]_vars

(* Three subscribers registered with three connections, none unregistered,
   and a get has found the last of them *)
C24_Witness ==
    /\ \A s \in RegistrySubscribers :
         last[s].op = "register" /\ last[s].replaced = None
    /\ Cardinality({RegistryGet(s) : s \in RegistrySubscribers}) = 3
    /\ got.subscriber_id = "sub_X" /\ got.result = RegistryGet("sub_X")

(***************************************************************************)
(* C25: a delivery row appears with status pending; its status changes at  *)
(* most once, from pending to success or to failed; its signal_id,         *)
(* subscription_id, attempt and mode never change and no row disappears;   *)
(* and a row is pending only while the job that created it is running.     *)
(***************************************************************************)
Terminal == {"success", "failed"}

C25_StatePart ==
    \A d \in DOMAIN deliveries :
        /\ deliveries[d].status \in Terminal \cup {"pending"}
        /\ deliveries[d].status = "pending" =>
             \E run \in Running : run.delivery = d

C25_StepPart ==
    /\ DOMAIN deliveries \subseteq DOMAIN deliveries'
    /\ \A d \in DOMAIN deliveries' :
         IF d \notin DOMAIN deliveries
         THEN deliveries'[d].status = "pending"
         ELSE /\ deliveries'[d].signal_id = deliveries[d].signal_id
              /\ deliveries'[d].subscription_id = deliveries[d].subscription_id
              /\ deliveries'[d].attempt = deliveries[d].attempt
              /\ deliveries'[d].mode = deliveries[d].mode
              /\ deliveries'[d].status # deliveries[d].status =>
                   /\ deliveries[d].status = "pending"
                   /\ deliveries'[d].status \in Terminal

C25_Lifecycle == [](C25_StatePart) /\ [][C25_StepPart]_vars

(* A pair with a failed agent row and a successful webhook row, nothing
   left to run *)
C25_Witness ==
    /\ RowsOf("sig_1", "sbn_F", "agent", "failed") # {}
    /\ RowsOf("sig_1", "sbn_F", "webhook", "success") # {}
    /\ \A d \in DOMAIN deliveries : deliveries[d].status \in Terminal
    /\ Quiescent("sig_1", "sbn_F")

----------------------------------------------------------------------------
(* Jobs that name rows the database does not have *)

MissingKinds == {"signal", "subscription", "channel", "subscriber", "webhook"}

(* One job of one subscription, with one of the rows it leads to absent:
   the job names a signal or subscription that is not there, or the row of
   the channel, the subscriber or the webhook has been taken out of the
   database since.  The agent of the subscriber may be connected. *)
InitMissing ==
    \E kind \in MissingKinds :
    \E s \in IF kind = "webhook" THEN {"sbn_F"} ELSE DOMAIN Subscriptions0 :
    \E online \in SUBSET {Subscriptions0[s].subscriber_id} :
       /\ signals = IF kind = "signal" THEN << >>
                    ELSE [id \in {"sig_1"} |-> SignalRow("ch_1", "normal")]
       /\ subscriptions =
            CASE kind = "subscription" ->
                   [id \in DOMAIN Subscriptions0 \ {s} |-> Subscriptions0[id]]
              [] kind = "subscriber" ->
                   [Subscriptions0 EXCEPT ![s].subscriber_id = "sub_Z"]
              [] OTHER -> Subscriptions0
       /\ channels = IF kind = "channel" THEN << >>
                     ELSE [id \in {"ch_1"} |-> ChannelRow("active")]
       /\ webhooks = IF kind = "webhook" THEN << >> ELSE Webhooks0
       /\ api_keys = ApiKeys0
       /\ deliveries = << >>
       /\ dlq = << >>
       /\ timers = EmptyBag
       /\ runs = EmptyBag
       /\ returned = {}
       /\ got = NoGot
       /\ last = [x \in RegistrySubscribers |-> NoLast]
       /\ resp = NoResp
       /\ rp = NoRp
       /\ agentProc = NoAgentProc
       /\ endpoint = [id \in DOMAIN Webhooks0 |-> 503]
       /\ queues = [l \in Lanes |->
                      IF l = "delivery-normal"
                      THEN SetToBag({Job("sig_1", s,
                                         Subscriptions0[s].webhook_id, 0)})
                      ELSE EmptyBag]
       /\ agents = {[subscriber_id |-> x, connection_id |-> ConnOf(x)]
                    : x \in online}
       /\ conns = [c \in ConnIds |->
                     IF \E x \in online : ConnOf(x) = c
                     THEN LiveConn(CHOOSE x \in online : ConnOf(x) = c)
                     ELSE NoConn]

(* Jobs whose rows are all there, and jobs with a row missing *)
InitLookup == InitDelivery \/ InitMissing

SpecLookup == InitLookup /\ [][NextDelivery]_vars

(* The lookups of lines 33-44 fail for the job *)
MissingEarly(job) ==
    \/ job.signal_id \notin DOMAIN signals
    \/ job.subscription_id \notin DOMAIN subscriptions
    \/ signals[job.signal_id].channel_id \notin DOMAIN channels
    \/ subscriptions[job.subscription_id].subscriber_id \notin SubscriberIds

(* The lookup of lines 68-70 fails for the job *)
MissingWebhook(job) ==
    /\ ~MissingEarly(job)
    /\ subscriptions[job.subscription_id].webhook_id # None
    /\ subscriptions[job.subscription_id].webhook_id \notin DOMAIN webhooks

(***************************************************************************)
(* C26: a job that names a missing signal, subscription, channel or        *)
(* subscriber returns Err having done nothing: no delivery row, no timer,  *)
(* no DLQ entry, no counter.  A job whose webhook is missing returns Err   *)
(* unless its tunnel send delivered, with no timer and no DLQ entry, and   *)
(* the step in which a lookup fails changes no table, timer or queue.      *)
(***************************************************************************)
C26_StatePart ==
    /\ \A o \in returned :
         /\ MissingEarly(o.job) =>
              /\ o.result = "ret_err"
              /\ o.tunnel = "none"
              /\ o.n_failed = 0 /\ o.n_requeue = 0 /\ o.n_dlq = 0
         /\ MissingWebhook(o.job) =>
              /\ o.result = "ret_err" \/ o.tunnel = "sent"
              /\ o.n_requeue = 0 /\ o.n_dlq = 0
    /\ \A run \in Running :
         MissingEarly(run.job) => run.pc = "load"
    /\ \A t \in BagToSet(timers) :
         ~MissingEarly(t.job) /\ ~MissingWebhook(t.job)
    /\ \A e \in DOMAIN dlq :
         LET job == Job(dlq[e].signal_id, dlq[e].subscription_id, None, 0)
         IN ~MissingEarly(job) /\ ~MissingWebhook(job)
    /\ \A d \in DOMAIN deliveries :
         ~MissingEarly(Job(deliveries[d].signal_id,
                           deliveries[d].subscription_id, None, 0))

C26_StepPart ==
    \A o \in returned' \ returned :
        ((MissingEarly(o.job) \/ MissingWebhook(o.job))
           /\ o.result = "ret_err") =>
            UNCHANGED << signals, webhooks, deliveries, dlq, timers, queues >>

C26_MissingEntity == [](C26_StatePart) /\ [][C26_StepPart]_vars

(* A job whose webhook row is missing has returned Err after its tunnel
   send failed *)
C26_Witness ==
    \E o \in returned :
        /\ MissingWebhook(o.job)
        /\ o.result = "ret_err" /\ o.tunnel = "failed" /\ o.n_failed = 1
        /\ timers = EmptyBag /\ dlq = << >>

----------------------------------------------------------------------------
(* The call found no agent for the subscriber (no tunnel attempt was made)
   and the subscription has no webhook_id *)
NoMethod(o) ==
    /\ ~MissingEarly(o.job)
    /\ o.tunnel = "none"
    /\ subscriptions[o.job.subscription_id].webhook_id = None

RowsOfJob(job) ==
    {d \in DOMAIN deliveries :
        /\ deliveries[d].signal_id = job.signal_id
        /\ deliveries[d].subscription_id = job.subscription_id
        /\ deliveries[d].attempt = job.attempt}

(***************************************************************************)
(* C27: a job whose subscriber has no registered agent and whose           *)
(* subscription has no webhook_id returns Err without a delivery row for   *)
(* its attempt, without a retry, a DLQ entry or a counter change; the      *)
(* call is one step that changes no table, timer or queue.                 *)
(***************************************************************************)
C27_StatePart ==
    \A o \in returned :
        NoMethod(o) =>
            /\ o.result = "ret_err"
            /\ o.n_failed = 0 /\ o.n_requeue = 0 /\ o.n_dlq = 0
            /\ RowsOfJob(o.job) = {}

C27_StepPart ==
    \A o \in returned' \ returned :
        NoMethod(o) =>
            /\ \E run \in Running :
                 /\ run.pc = "load" /\ run.job = o.job
                 /\ RegistryGet(SubOf(run).subscriber_id) = None
            /\ UNCHANGED << signals, webhooks, deliveries, dlq, timers,
                            queues >>

C27_NoDeliveryMethod == [](C27_StatePart) /\ [][C27_StepPart]_vars

(* The job of the tunnel-only subscription returned Err while its agent was
   not connected, and nothing was written or scheduled for it *)
C27_Witness ==
    \E o \in returned :
        /\ NoMethod(o) /\ o.job.subscription_id = "sbn_T"
        /\ o.result = "ret_err"
        /\ RegistryGet("sub_T") = None
        /\ \A d \in DOMAIN deliveries : deliveries[d].subscription_id # "sbn_T"
        /\ \A t \in BagToSet(timers) : t.job.subscription_id # "sbn_T"
        /\ \A e \in DOMAIN dlq : dlq[e].subscription_id # "sbn_T"

----------------------------------------------------------------------------
(* The call recorded a failure that is retried: a webhook failure, or a
   tunnel failure of a subscription without a webhook_id *)
WebhookFailed(o) == o.n_failed > (IF o.tunnel = "failed" THEN 1 ELSE 0)

RetryDue(o) ==
    /\ ~Exhausted(o.job.attempt)
    /\ \/ WebhookFailed(o)
       \/ o.tunnel = "failed"
            /\ subscriptions[o.job.subscription_id].webhook_id = None

(* Jobs with the pair and attempt of job that wait in a delayed task, on a
   lane or in a worker *)
CopiesOfJob(job) ==
    LET same(j) == /\ j.signal_id = job.signal_id
                   /\ j.subscription_id = job.subscription_id
                   /\ j.attempt = job.attempt
        Sum3(a, b, c) == a + b + c
    IN Sum3(Cardinality({t \in BagToSet(timers) : same(t.job)}),
            Cardinality({<< l, j >> \in Lanes \X QueuedJobs :
                            same(j) /\ BagIn(j, queues[l])}),
            Cardinality({run \in Running : same(run.job)}))

FailedRowBefore(job) ==
    \E d \in DOMAIN deliveries :
        /\ deliveries[d].signal_id = job.signal_id
        /\ deliveries[d].subscription_id = job.subscription_id
        /\ deliveries[d].attempt = job.attempt - 1
        /\ deliveries[d].status = "failed"

(***************************************************************************)
(* C28: a call that records a retried failure at attempt a < 5 schedules   *)
(* exactly one job and no DLQ entry; the scheduled job has attempt a + 1,  *)
(* the pair of the failed job and the delay retry_policy(a + 1), 60 s      *)
(* after attempt 0; it is scheduled when the row of the failed attempt is  *)
(* already failed, exists once, and reaches a lane only from the delayed   *)
(* task that slept for that delay.                                         *)
(***************************************************************************)
C28_StatePart ==
    /\ \A o \in returned :
         RetryDue(o) => o.n_requeue = 1 /\ o.n_dlq = 0
    /\ \A t \in BagToSet(timers) :
         /\ CopiesIn(t, timers) = 1
         /\ t.job.attempt >= 1
         /\ t.delay = retry_policy(t.job.attempt)
         /\ t.job.attempt = 1 => t.delay = 60
    /\ \A job \in PendingJobs :
         job.attempt >= 1 => FailedRowBefore(job) /\ CopiesOfJob(job) = 1
    /\ \A l \in Lanes : \A job \in BagToSet(queues[l]) :
         job.attempt >= 1 => CopiesIn(job, queues[l]) = 1

C28_StepPart ==
    /\ \A t \in BagToSet(timers') \ BagToSet(timers) :
         \E run \in Running :
            /\ run.pc \in {"tf_policy", "wf_policy"}
            /\ ~Exhausted(run.job.attempt)
            /\ t.job.signal_id = run.job.signal_id
            /\ t.job.subscription_id = run.job.subscription_id
            /\ t.job.attempt = run.job.attempt + 1
            /\ t.delay = retry_policy(run.job.attempt + 1)
            /\ deliveries[run.delivery].status = "failed"
            /\ deliveries[run.delivery].attempt = run.job.attempt
    /\ \A l \in Lanes : \A job \in BagToSet(queues'[l]) :
         (job.attempt >= 1 /\ CopiesIn(job, queues'[l]) > CopiesIn(job, queues[l]))
            => \E t \in BagToSet(timers) :
                  /\ t.job = job /\ t.queue = l
                  /\ t.delay = retry_policy(job.attempt)
                  /\ timers' = timers (-) SetToBag({t})

C28_RequeueOnce == [](C28_StatePart) /\ [][C28_StepPart]_vars

(* Attempt 0 of the webhook pair failed and returned; its one successor,
   attempt 1, has left its 60 s task and waits on a lane *)
C28_Witness ==
    /\ \E o \in returned :
         /\ o.job.subscription_id = "sbn_F" /\ o.job.attempt = 0
         /\ WebhookFailed(o) /\ o.n_requeue = 1
    /\ \E job \in QueuedJobs :
         /\ job.subscription_id = "sbn_F" /\ job.attempt = 1
         /\ FailedRowBefore(job)
    /\ timers = EmptyBag

----------------------------------------------------------------------------
(* Answers of a webhook endpoint *)

(* What the endpoint answers when it does not answer 200: a transport error,
   or a status at and next to the edges of 2xx, a 4xx, a 5xx *)
StatusCodes == {NoCode, 199, 204, 299, 300, 404, 500}

(* The attempt-0 job of the webhook subscription, its subscriber without an
   agent, and an endpoint with one of the answers *)
InitCodes ==
    /\ InitTables
    /\ rp = NoRp
    /\ agentProc = NoAgentProc
    /\ signals = [id \in {"sig_1"} |-> SignalRow("ch_1", "normal")]
    /\ \E code \in StatusCodes : endpoint = [id \in DOMAIN Webhooks0 |-> code]
    /\ queues = [l \in Lanes |->
                   IF l = "delivery-normal"
                   THEN SetToBag({Job("sig_1", "sbn_F", "wh_F", 0)})
                   ELSE EmptyBag]
    /\ agents = {}
    /\ conns = [c \in ConnIds |-> NoConn]

InitClassify == InitDelivery \/ InitCodes

SpecClassify == InitClassify /\ [][NextDelivery]_vars

(* Rows of webhook deliveries whose POST has come back *)
WebhookRowsDone ==
    {d \in DOMAIN deliveries :
        deliveries[d].mode = "webhook" /\ deliveries[d].status # "pending"}

(* The job of the pair with the attempt after the row's is scheduled,
   queued, running or has run *)
HasSuccessor(d) ==
    LET next(job) == /\ job.signal_id = deliveries[d].signal_id
                     /\ job.subscription_id = deliveries[d].subscription_id
                     /\ job.attempt = deliveries[d].attempt + 1
    IN \/ \E job \in PendingJobs : next(job)
       \/ \E o \in returned : next(o.job)

(* The call that made the row is past its failure handler *)
Handled(d) == \A run \in Running : run.delivery # d

(***************************************************************************)
(* C29: the row of a webhook attempt is success exactly when the response  *)
(* was a 2xx, and it carries the response's status code, or no code after  *)
(* a transport error; the successes are what the signal's delivered count  *)
(* counts; and every failed row, whatever its code, is followed by the job *)
(* of the next attempt below attempt 5 and by a DLQ entry at attempt 5.    *)
(***************************************************************************)
C29_StatePart ==
    /\ \A d \in WebhookRowsDone :
         LET row == deliveries[d] IN
           /\ row.status = "success" <=> row.status_code \in 200 .. 299
           /\ row.status_code \in {200, endpoint[row.webhook_id]}
           /\ (row.status = "failed" /\ Handled(d)) =>
                IF row.attempt < 5
                THEN HasSuccessor(d) /\ << "dlq", d >> \notin DOMAIN dlq
                ELSE << "dlq", d >> \in DOMAIN dlq /\ ~HasSuccessor(d)
    /\ Running = {} =>
         \A s \in DOMAIN signals :
            signals[s].delivered_count =
               Cardinality({d \in DOMAIN deliveries :
                               /\ deliveries[d].signal_id = s
                               /\ deliveries[d].status = "success"})

C29_StepPart ==
    \A run \in Running :
        (run.pc = "w_post" /\ deliveries'[run.delivery] # deliveries[run.delivery])
           => LET row == deliveries'[run.delivery] IN
                /\ row.status \in {"success", "failed"}
                /\ row.status_code = NoCode => row.status = "failed"
                /\ \A other \in DOMAIN deliveries \ {run.delivery} :
                      deliveries'[other] = deliveries[other]

C29_WebhookClassification == [](C29_StatePart) /\ [][C29_StepPart]_vars

(* An endpoint that answers 404: attempt 0 has a failed row with that code
   and was requeued; attempt 1 got a 200, its row is the one success the
   signal counts *)
C29_Witness ==
    /\ Running = {}
    /\ \E d \in WebhookRowsDone :
        /\ deliveries[d].status = "failed" /\ deliveries[d].status_code = 404
        /\ deliveries[d].attempt = 0
        /\ HasSuccessor(d)
    /\ \E d \in WebhookRowsDone :
        /\ deliveries[d].status = "success" /\ deliveries[d].status_code = 200
        /\ deliveries[d].attempt = 1
        /\ signals[deliveries[d].signal_id].delivered_count = 1

----------------------------------------------------------------------------
(* A Live session and the messages of its client *)

(* ClientMessage::Ack and ClientMessage::Pong *)
AckFrameOf(delivery_id) == [kind |-> "ack", delivery_id |-> delivery_id]
PongFrame == [kind |-> "pong", token |-> ""]

(* What a Live client may send: text that does not parse, a pong, an auth
   message with the key of the session or a revoked one, an ack of a
   delivery that exists or of one that does not *)
LiveFrames ==
    {OtherFrame, PongFrame, AuthFrameOf("tok_T"), AuthFrameOf("tok_R")}
      \cup {AckFrameOf(d) : d \in DOMAIN deliveries \cup {NoDelivery}}

LiveFrame(c) == \E frame \in LiveFrames : ReadFrame(c, frame)

(* The agent of sub_T is connected while the worker delivers one signal to
   it; the client sends what it likes, or nothing, and may leave *)
InitLive == InitBackpressure

NextLive ==
    \/ Dispatch
    \/ \E run \in Running : Route(run)
    \/ \E run \in Running : TunnelCreate(run)
    \/ \E run \in Running : TunnelSend(run)
    \/ \E run \in Running : TunnelMarkSuccess(run)
    \/ \E run \in Running : TunnelCountSuccess(run)
    \/ \E run \in Running : TunnelFailMark(run)
    \/ \E run \in Running : TunnelFailCount(run)
    \/ \E run \in Running : TunnelFailPolicy(run)
    \/ RequeueFire
    \/ \E c \in ConnIds : WriterSend(c)
    \/ \E c \in ConnIds : HeartbeatTick(c)
    \/ \E c \in ConnIds : LiveFrame(c)
    \/ \E c \in ConnIds : SessionClose(c)

SpecLive == InitLive /\ [][NextLive]_vars

(* The step read a frame of the client of c *)
FrameRead(c) == conns[c].pc = "live" /\ conns'[c].frame # conns[c].frame

(* The step put a ping into the channel of c *)
PingQueued(c) ==
    /\ Len(conns'[c].outbound) = Len(conns[c].outbound) + 1
    /\ conns'[c].outbound[Len(conns'[c].outbound)] = PingMsg

(***************************************************************************)
(* C30: a Live session is in the registry under its connection.  Reading   *)
(* an ack, a pong, an auth message or text that does not parse leaves the  *)
(* session Live, the registry, every delivery row and every counter as     *)
(* they were; a ping is queued whether or not earlier pings were answered  *)
(* and leaves the session Live; the session leaves Live only in a step     *)
(* that neither reads a message nor queues a ping (the read loop ended).   *)
(***************************************************************************)
C30_StatePart ==
    \A c \in ConnIds :
        conns[c].pc = "live" =>
            RegisteredAs(c) = {[subscriber_id |-> conns[c].subscriber_id,
                                connection_id |-> c]}

C30_StepPart ==
    \A c \in ConnIds :
        /\ FrameRead(c) =>
             /\ conns'[c] = [conns[c] EXCEPT !.frame = conns'[c].frame]
             /\ conns'[c].frame \in LiveFrames
             /\ UNCHANGED << agents, deliveries, signals, dlq, timers, queues,
                             runs, returned >>
        /\ PingQueued(c) =>
             /\ conns'[c].pc = "live"
             /\ UNCHANGED << agents, deliveries >>
        /\ (conns[c].pc = "live" /\ conns'[c].pc # "live") =>
             /\ ~FrameRead(c) /\ ~PingQueued(c)
             /\ conns'[c].pc = "closed"

C30_LiveMessagesIgnored == [](C30_StatePart) /\ [][C30_StepPart]_vars

(* The client has acknowledged a delivery whose row is still pending, with
   unanswered pings in the channel: the session is Live and registered, the
   row is as the worker left it *)
C30_Witness ==
    \E c \in ConnIds :
        /\ conns[c].pc = "live"
        /\ RegisteredAs(c) # {}
        /\ conns[c].frame.kind = "ack"
        /\ conns[c].frame.delivery_id \in DOMAIN deliveries
        /\ deliveries[conns[c].frame.delivery_id].status = "pending"
        /\ Len(conns[c].outbound) = MaxPings
        /\ \A i \in 1 .. MaxPings : conns[c].outbound[i] = PingMsg

----------------------------------------------------------------------------
(* The RwLock of the registry.  register and unregister take the write
   guard, insert or remove, and drop it before they return; nothing is
   awaited in between, so they are one step that needs the lock free of
   readers.  A worker's get is followed here through its two ends: read()
   resolves with a guard, and the guard is dropped when the statement that
   cloned the entry ends. *)

ReadGuards == {run \in Running : run.guard = "read"}

(* handle_delivery_job lines 33-48: the rows are loaded, then get() takes
   the read guard *)
GetRead(run) ==
    /\ run.pc = "load"
    /\ LET job == run.job
           found ==
             /\ job.signal_id \in DOMAIN signals
             /\ job.subscription_id \in DOMAIN subscriptions
             /\ signals[job.signal_id].channel_id \in DOMAIN channels
             /\ subscriptions[job.subscription_id].subscriber_id \in SubscriberIds
       IN IF ~found
          THEN Advance(run, [run EXCEPT !.pc = "ret_err"])
          ELSE Advance(run, [run EXCEPT !.pc = "get", !.guard = "read"])
    /\ UNCHANGED << dbVars, deliveries, dlq, queues, timers, endpoint, agents,
                    conns, got, last, resp, rp, agentProc >>

(* A get whose caller keeps the guard while it works with the entry *)
GetClone_KeepGuard(run) ==
    /\ run.pc = "get"
    /\ LET agent == RegistryGet(SubOf(run).subscriber_id) IN
         IF agent # None
         THEN Advance(run, [run EXCEPT !.agent = agent,
                                       !.allow_retry = AllowRetry(SubOf(run)),
                                       !.pc = "t_create"])
         ELSE Advance(run, WebhookOrErr([run EXCEPT !.guard = "none"]))
    /\ UNCHANGED << dbVars, deliveries, dlq, queues, timers, endpoint, agents,
                    conns, got, last, resp, rp, agentProc >>

(* tunnel.rs line 78 and handle_delivery_job lines 46-51: the entry is
   cloned out of the map, the guard is dropped with the end of the
   statement, and the call goes on with the Arc it holds *)
GetClone(run) ==
    /\ run.pc = "get"
    /\ LET agent == RegistryGet(SubOf(run).subscriber_id) IN
         IF agent # None
         THEN Advance(run, [run EXCEPT !.agent = agent,
                                       !.allow_retry = AllowRetry(SubOf(run)),
                                       !.guard = "none",
                                       !.pc = "t_create"])
         ELSE Advance(run, WebhookOrErr([run EXCEPT !.guard = "none"]))
    /\ UNCHANGED << dbVars, deliveries, dlq, queues, timers, endpoint, agents,
                    conns, got, last, resp, rp, agentProc >>

(* write().await resolves when no guard is out *)
LockedRegister(subscriber_id, connection_id) ==
    /\ ReadGuards = {}
    /\ agents' = RegistryInsert(subscriber_id, connection_id)
    /\ UNCHANGED << dbVars, deliveries, dlq, queues, timers, runs, returned,
                    endpoint, conns, got, last, resp, rp, agentProc >>

LockedUnregister(subscriber_id) ==
    /\ ReadGuards = {}
    /\ agents' = RegistryRemove(subscriber_id)
    /\ UNCHANGED << dbVars, deliveries, dlq, queues, timers, runs, returned,
                    endpoint, conns, got, last, resp, rp, agentProc >>

(* read().await resolves next to other read guards; the caller has its
   answer *)
LockedGet(subscriber_id) ==
    /\ got' = [subscriber_id |-> subscriber_id,
               result |-> RegistryGet(subscriber_id), expected |-> None]
    /\ UNCHANGED << dbVars, deliveries, dlq, queues, timers, runs, returned,
                    endpoint, agents, conns, last, resp, rp, agentProc >>

(* Sessions of other agents come and go, and other callers look up *)
LockSubscribers == {"sub_T", "sub_F"}
LockConns == {"conn_2"}

InitLock == InitBackpressure

NextLock ==
    \/ Dispatch
    \/ \E run \in Running : GetRead(run)
    \/ \E run \in Running : GetClone(run)
    \/ \E run \in Running : TunnelCreate(run)
    \/ \E run \in Running : TunnelSend(run)
    \/ \E run \in Running : TunnelMarkSuccess(run)
    \/ \E run \in Running : TunnelCountSuccess(run)
    \/ \E run \in Running : TunnelFailMark(run)
    \/ \E run \in Running : TunnelFailCount(run)
    \/ \E run \in Running : TunnelFailPolicy(run)
    \/ RequeueFire
    \/ \E c \in ConnIds : WriterSend(c)
    \/ \E c \in ConnIds : Heartbeat(c)
    \/ \E s \in LockSubscribers : \E c \in LockConns : LockedRegister(s, c)
    \/ \E s \in LockSubscribers : LockedUnregister(s)
    \/ \E s \in LockSubscribers : LockedGet(s)

SpecLock == InitLock /\ [][NextLock]_vars

(* The call is past get(): it writes rows, sends into the channel of the
   agent or waits for room in it *)
PastGet(run) == run.pc \notin {"load", "get"}

(***************************************************************************)
(* C31: a call that is past get() -- creating its row, sending, waiting    *)
(* for room in a full channel, recording the result -- holds no guard of   *)
(* the registry, and while a call is stuck in a send, register, unregister *)
(* and get can complete for every subscriber.                              *)
(***************************************************************************)
C31_LockNotHeldAcrossSend ==
    /\ \A run \in Running : PastGet(run) => run.guard = "none"
    /\ (\E run \in Running : run.pc = "t_blocked") =>
          \A s \in LockSubscribers :
             /\ \A c \in LockConns : ENABLED LockedRegister(s, c)
             /\ ENABLED LockedUnregister(s)
             /\ ENABLED LockedGet(s)

(* A call waits for room in the full channel of conn_1; sub_F has been
   registered, sub_T unregistered and a get for sub_T answered with None *)
C31_Witness ==
    /\ \E run \in Running : run.pc = "t_blocked" /\ run.agent = "conn_1"
    /\ Len(conns["conn_1"].outbound) = ChannelCapacity
    /\ RegistryGet("sub_F") = "conn_2"
    /\ got.subscriber_id = "sub_T" /\ got.result = None

----------------------------------------------------------------------------
(***************************************************************************)
(* C32: the teardown of a session removes only that session's entry: when  *)
(* the registry holds a newer connection of the subscriber at the time an  *)
(* older session closes, get returns the newer connection afterwards.      *)
(***************************************************************************)
C32_TeardownOwnEntry ==
    [][\A c \in ConnIds :
          LET s == conns[c].subscriber_id IN
            (/\ conns[c].pc = "live" /\ conns'[c].pc = "closed"
             /\ RegistryGet(s) \notin {None, c})
               => \E e \in agents' : /\ e.subscriber_id = s
                                     /\ e.connection_id = RegistryGet(s)]_vars

----------------------------------------------------------------------------
(* The step put the signal of a delivery into the channel of c *)
SignalQueued(c) ==
    /\ Len(conns'[c].outbound) = Len(conns[c].outbound) + 1
    /\ conns'[c].outbound[Len(conns'[c].outbound)].type = "signal"

(***************************************************************************)
(* C33: a worker puts a signal into the channel of a connection only while *)
(* that connection is the registered connection of a Live session; after   *)
(* the connection was replaced or unregistered nothing is pushed onto it   *)
(* and recorded as delivered.                                              *)
(***************************************************************************)
C33_SuccessOnRegistered ==
    [][\A c \in ConnIds :
          SignalQueued(c) =>
             /\ conns[c].pc = "live"
             /\ RegistryGet(conns[c].subscriber_id) = c]_vars

----------------------------------------------------------------------------
(* The job has a delivery row that was marked success *)
SuccessRows(job) ==
    {d \in RowsOfJob(job) : deliveries[d].status = "success"}

(***************************************************************************)
(* C34: a run of a job that has marked a delivery success -- through the   *)
(* tunnel, or by webhook after the tunnel send failed -- has scheduled no  *)
(* requeue and made no DLQ entry, and none exists for its attempt.         *)
(***************************************************************************)
C34_SuccessExcludesRetry ==
    /\ \A run \in Running :
         SuccessRows(run.job) # {} => run.n_requeue = 0 /\ run.n_dlq = 0
    /\ \A o \in returned :
         SuccessRows(o.job) # {} =>
            /\ o.result = "ret_ok"
            /\ o.n_requeue = 0 /\ o.n_dlq = 0
            /\ \A t \in BagToSet(timers) :
                  ~(/\ t.job.signal_id = o.job.signal_id
                    /\ t.job.subscription_id = o.job.subscription_id
                    /\ t.job.attempt = o.job.attempt + 1)
            /\ \A e \in DOMAIN dlq : dlq[e].delivery_id \notin RowsOfJob(o.job)

(* The tunnel send of a job failed, its webhook POST succeeded: the call
   returned Ok with one failed and one success row, no requeue and no DLQ
   entry *)
C34_Witness ==
    \E o \in returned :
        /\ o.tunnel = "failed" /\ o.n_failed = 1 /\ o.result = "ret_ok"
        /\ \E d \in SuccessRows(o.job) : deliveries[d].mode = "webhook"
        /\ \E d \in RowsOfJob(o.job) :
              deliveries[d].mode = "agent" /\ deliveries[d].status = "failed"
        /\ o.n_requeue = 0 /\ o.n_dlq = 0
        /\ timers = EmptyBag /\ dlq = << >>

----------------------------------------------------------------------------
(* Repeated retries of one DLQ entry *)

MaxDlqRetries == 2

RetryAgain(auth, id) ==
    /\ RequestsSoFar < MaxDlqRetries
    /\ RetryDlqCall(auth, id)

(* The attempt-0 job of the webhook subscription, its subscriber without an
   agent, and an endpoint that answers 503 *)
InitDlqTwice ==
    /\ InitTables
    /\ rp = NoRp
    /\ agentProc = NoAgentProc
    /\ signals = [id \in {"sig_1"} |-> SignalRow("ch_1", "normal")]
    /\ endpoint = [id \in DOMAIN Webhooks0 |-> 503]
    /\ queues = [l \in Lanes |->
                   IF l = "delivery-normal"
                   THEN SetToBag({Job("sig_1", "sbn_F", "wh_F", 0)})
                   ELSE EmptyBag]
    /\ agents = {}
    /\ conns = [c \in ConnIds |-> NoConn]

NextDlqTwice ==
    \/ Dispatch
    \/ \E run \in Running : Route(run)
    \/ \E run \in Running : WebhookCreate(run)
    \/ \E run \in Running : WebhookPost(run)
    \/ \E run \in Running : WebhookCountSuccess(run)
    \/ \E run \in Running : WebhookResetFailures(run)
    \/ \E run \in Running : WebhookFailCount(run)
    \/ \E run \in Running : WebhookFailBump(run)
    \/ \E run \in Running : WebhookFailPolicy(run)
    \/ RequeueFire
    \/ \E auth \in Callers : \E id \in DOMAIN dlq \cup {NoDlqId} :
         RetryAgain(auth, id)

SpecDlqTwice == InitDlqTwice /\ [][NextDlqTwice]_vars

(***************************************************************************)
(* C35: a retry of a DLQ entry that is already resolved pushes no job, so  *)
(* that any number of retries of one entry adds at most one job.           *)
(***************************************************************************)
C35_RetryOnce ==
    [][(resp' # resp /\ resp'.id \in DOMAIN dlq /\ dlq[resp'.id].resolved)
          => queues' = queues]_vars

----------------------------------------------------------------------------
(* Authentication of REST requests and of tunnel sessions *)

(* Utc::now() at the time of a call, and the expires_at of keys (an Option:
   << >> or << t >>): one in the past of every call, one between the calls,
   one after them *)
Nows == {20, 40}
ExpiringKeys ==
    { [ApiKeyRow("key_E", "tok_E", "subscriber", "sub_F", "active")
         EXCEPT !.expires_at = << 10 >>],
      [ApiKeyRow("key_M", "tok_M", "subscriber", "sub_T", "active")
         EXCEPT !.expires_at = << 30 >>],
      [ApiKeyRow("key_L", "tok_L", "subscriber", "sub_T", "active")
         EXCEPT !.expires_at = << 50 >>] }
AuthTokens == Tokens \cup {"tok_E", "tok_M", "tok_L"}

AuthContext(ok, owner_type, owner_id) ==
    [ok |-> ok, owner_type |-> owner_type, owner_id |-> owner_id]

(* api_key_auth lines 41-93, for a request with `Authorization: Bearer
   token`: the active row of the hash, not expired, gives the AuthContext;
   else Unauthorized *)
api_key_auth(token, now) ==
    IF token = ""
    THEN AuthContext(FALSE, None, None)
    ELSE LET record == get_by_hash(hash_api_key(token)) IN
         IF record = NoKey
         THEN AuthContext(FALSE, None, None)
         ELSE IF record.expires_at # << >> /\ record.expires_at[1] < now
         THEN AuthContext(FALSE, None, None)
         ELSE AuthContext(TRUE, record.owner_type, record.owner_id)

AuthResp(call, token, now, ok, owner_id) ==
    [call |-> call, token |-> token, now |-> now, ok |-> ok,
     owner_id |-> owner_id]

(* A client presents a key to the tunnel endpoint *)
AuthTunnel(token, now) ==
    /\ resp' = AuthResp("tunnel", token, now, authenticate(token).ok,
                        authenticate(token).subscriber_id)
    /\ UNCHANGED << dbVars, deliveries, dlq, queues, timers, runs, returned,
                    endpoint, agents, conns, got, last, rp, agentProc >>

(* A client presents a key to a REST route *)
AuthRest(token, now) ==
    /\ resp' = AuthResp("rest", token, now, api_key_auth(token, now).ok,
                        api_key_auth(token, now).owner_id)
    /\ UNCHANGED << dbVars, deliveries, dlq, queues, timers, runs, returned,
                    endpoint, agents, conns, got, last, rp, agentProc >>

InitAuth ==
    /\ InitQuiet
    /\ rp = NoRp
    /\ agentProc = NoAgentProc
    /\ channels = [id \in {"ch_1"} |-> ChannelRow("active")]
    /\ subscriptions = Subscriptions0
    /\ webhooks = Webhooks0
    /\ api_keys = ApiKeys0 \cup ExpiringKeys
    /\ deliveries = << >>
    /\ dlq = << >>
    /\ timers = EmptyBag
    /\ runs = EmptyBag
    /\ returned = {}
    /\ got = NoGot
    /\ last = [s \in RegistrySubscribers |-> NoLast]
    /\ resp = NoResp

NextAuth ==
    \/ \E token \in AuthTokens : \E now \in Nows : AuthTunnel(token, now)
    \/ \E token \in AuthTokens : \E now \in Nows : AuthRest(token, now)
    \/ RevokeKey

SpecAuth == InitAuth /\ [][NextAuth]_vars

(***************************************************************************)
(* C36: a key that authenticates a tunnel session is a subscriber key that *)
(* api_key_auth accepts at that time, and a subscriber key that            *)
(* api_key_auth accepts authenticates a tunnel session; a key whose        *)
(* expires_at is past authenticates neither.                               *)
(***************************************************************************)
C36_SameKeysAccepted ==
    (resp # NoResp /\ resp.call = "tunnel") =>
        LET rest == api_key_auth(resp.token, resp.now) IN
          resp.ok <=> (rest.ok /\ rest.owner_type = "subscriber")

----------------------------------------------------------------------------
(* Webhooks that are switched off while jobs for them are on their way *)

WebhookCallers ==
    { [owner_type |-> "subscriber", owner_id |-> "sub_F"],
      [owner_type |-> "subscriber", owner_id |-> "sub_T"],
      [owner_type |-> "publisher", owner_id |-> "pub_1"] }

WebhookResp(auth, status, id) == [caller |-> auth, status |-> status, id |-> id]

(* webhooks::update(.., Some(WebhookStatus::Disabled)) *)
WebhookDisable(id) == [webhooks EXCEPT ![id].status = "disabled"]

(* delete_webhook: subscribers only, the webhook must be there and the
   caller's; its status becomes disabled, the row stays *)
DeleteWebhook(auth, id) ==
    /\ IF auth.owner_type # "subscriber"
       THEN resp' = WebhookResp(auth, "forbidden", id) /\ UNCHANGED webhooks
       ELSE IF id \notin DOMAIN webhooks
       THEN resp' = WebhookResp(auth, "not_found", id) /\ UNCHANGED webhooks
       ELSE IF webhooks[id].subscriber_id # auth.owner_id
       THEN resp' = WebhookResp(auth, "forbidden", id) /\ UNCHANGED webhooks
       ELSE /\ webhooks' = WebhookDisable(id)
            /\ resp' = WebhookResp(auth, "disabled", id)
    /\ UNCHANGED << channels, signals, subscriptions, api_keys, deliveries,
                    dlq, queues, timers, runs, returned, endpoint, agents,
                    conns, got, last, rp, agentProc >>

InitWebhookOff == InitDlqTwice

NextWebhookOff ==
    \/ Dispatch
    \/ \E run \in Running : Route(run)
    \/ \E run \in Running : WebhookCreate(run)
    \/ \E run \in Running : WebhookPost(run)
    \/ \E run \in Running : WebhookCountSuccess(run)
    \/ \E run \in Running : WebhookResetFailures(run)
    \/ \E run \in Running : WebhookFailCount(run)
    \/ \E run \in Running : WebhookFailBump(run)
    \/ \E run \in Running : WebhookFailPolicy(run)
    \/ RequeueFire
    \/ \E auth \in WebhookCallers : \E id \in {"wh_F", "wh_Z"} :
         DeleteWebhook(auth, id)

SpecWebhookOff == InitWebhookOff /\ [][NextWebhookOff]_vars

(***************************************************************************)
(* C37: the worker POSTs a signal only to a webhook whose status is active *)
(* at that time; a webhook that was paused or disabled (deleted) after the *)
(* job was enqueued gets no POST.                                          *)
(***************************************************************************)
C37_NoPostToInactive ==
    [][\A run \in Running :
          (/\ run.pc = "w_post"
           /\ deliveries'[run.delivery].status # deliveries[run.delivery].status)
             => webhooks[run.webhook].status = "active"]_vars

----------------------------------------------------------------------------
(* Subscribing and unsubscribing *)

MaxSubRequests == 4

(* channels::increment_subscriber_count: subscriber_count + delta *)
IncrementSubscriberCount(channel_id, delta) ==
    IF channel_id \in DOMAIN channels
    THEN [channels EXCEPT ![channel_id].subscriber_count = @ + delta]
    ELSE channels

(* format!("sub_{}", nanoid!(12)): an id no subscription has *)
NewSubscriptionId == "sbn_" \o ToString(Cardinality(DOMAIN subscriptions) + 1)

SubResp(auth, status, id) ==
    [caller |-> auth, status |-> status, id |-> id,
     request_id |-> RequestsSoFar + 1]

(* create_subscription: subscribers only; the channel is there (public) and
   active, the webhook is there and the caller's; the INSERT fails on the
   unique index when the caller already has a subscription on the channel;
   then subscriber_count + 1 *)
CreateSubscription(auth, channel_id, webhook_id) ==
    LET refuse(status) ==
            /\ resp' = SubResp(auth, status, None)
            /\ UNCHANGED << subscriptions, channels >>
    IN
    /\ RequestsSoFar < MaxSubRequests
    /\ IF auth.owner_type # "subscriber" THEN refuse("forbidden")
       ELSE IF channel_id \notin DOMAIN channels THEN refuse("not_found")
       ELSE IF channels[channel_id].status # "active" THEN refuse("bad_request")
       ELSE IF webhook_id \notin DOMAIN webhooks THEN refuse("not_found")
       ELSE IF webhooks[webhook_id].subscriber_id # auth.owner_id
            THEN refuse("forbidden")
       ELSE IF \E s \in DOMAIN subscriptions :
                  /\ subscriptions[s].subscriber_id = auth.owner_id
                  /\ subscriptions[s].channel_id = channel_id
            THEN refuse("bad_request")
       ELSE /\ subscriptions' = subscriptions @@
                 (NewSubscriptionId :>
                    [subscriber_id |-> auth.owner_id, channel_id |-> channel_id,
                     webhook_id |-> webhook_id, status |-> "active"])
            /\ channels' = IncrementSubscriberCount(channel_id, 1)
            /\ resp' = SubResp(auth, "active", NewSubscriptionId)
    /\ UNCHANGED << signals, webhooks, api_keys, deliveries, dlq, queues,
                    timers, runs, returned, endpoint, agents, conns, got,
                    last, rp, agentProc >>

(* delete_subscription: subscribers only, the subscription is there and the
   caller's; its status becomes canceled, then subscriber_count - 1 *)
DeleteSubscription(auth, id) ==
    LET refuse(status) ==
            /\ resp' = SubResp(auth, status, id)
            /\ UNCHANGED << subscriptions, channels >>
    IN
    /\ RequestsSoFar < MaxSubRequests
    /\ IF auth.owner_type # "subscriber" THEN refuse("forbidden")
       ELSE IF id \notin DOMAIN subscriptions THEN refuse("not_found")
       ELSE IF subscriptions[id].subscriber_id # auth.owner_id
            THEN refuse("forbidden")
       ELSE /\ subscriptions' = [subscriptions EXCEPT ![id].status = "canceled"]
            /\ channels' = IncrementSubscriberCount(subscriptions[id].channel_id, -1)
            /\ resp' = SubResp(auth, "canceled", id)
    /\ UNCHANGED << signals, webhooks, api_keys, deliveries, dlq, queues,
                    timers, runs, returned, endpoint, agents, conns, got,
                    last, rp, agentProc >>

(* A public, active channel without subscriptions; each subscriber has a
   webhook *)
InitSubscribe ==
    /\ InitQuiet
    /\ rp = NoRp
    /\ agentProc = NoAgentProc
    /\ channels = [id \in {"ch_1"} |-> ChannelRow("active")]
    /\ subscriptions = << >>
    /\ webhooks = [id \in {"wh_F", "wh_T"} |->
                     WebhookRow(IF id = "wh_F" THEN "sub_F" ELSE "sub_T")]
    /\ api_keys = ApiKeys0
    /\ deliveries = << >>
    /\ dlq = << >>
    /\ timers = EmptyBag
    /\ runs = EmptyBag
    /\ returned = {}
    /\ got = NoGot
    /\ last = [s \in RegistrySubscribers |-> NoLast]
    /\ resp = NoResp

NextSubscribe ==
    \/ \E auth \in WebhookCallers : \E ch \in {"ch_1", "ch_Z"} :
       \E wh \in {"wh_F", "wh_T", "wh_Z"} : CreateSubscription(auth, ch, wh)
    \/ \E auth \in WebhookCallers :
       \E id \in DOMAIN subscriptions \cup {"sbn_Z"} : DeleteSubscription(auth, id)

SpecSubscribe == InitSubscribe /\ [][NextSubscribe]_vars

(***************************************************************************)
(* C38: the subscriber_count of a channel is the number of its active      *)
(* subscriptions and is never negative, whatever was created and deleted;  *)
(* deleting a canceled subscription again does not count.                  *)
(***************************************************************************)
C38_SubscriberCount ==
    \A ch \in DOMAIN channels :
        /\ channels[ch].subscriber_count >= 0
        /\ channels[ch].subscriber_count =
             Cardinality({s \in DOMAIN subscriptions :
                             /\ subscriptions[s].channel_id = ch
                             /\ subscriptions[s].status = "active"})

----------------------------------------------------------------------------
(* The agent: run_tunnel, connect_and_run, handle_server_message *)

MaxFrames == 3
MaxBackoff == 3

AgentDeliveries == {"del_1", "del_2"}

(* What the local service answers to the forwarder's POST; NoCode: the
   request itself failed *)
ForwardCodes == {NoCode, 199, 200, 299, 300}

(* ServerMessage as JSON text; "invalid" is text serde_json cannot parse *)
ServerText(type, delivery_id) == [type |-> type, delivery_id |-> delivery_id]

ServerTexts ==
    {ServerText(t, "") : t \in {"auth_ok", "auth_error", "ping", "invalid"}}
      \cup {ServerText("signal", d) : d \in AgentDeliveries}

(* What read.next() yields: a frame, the end of the stream, or an error *)
StreamItems ==
    {[kind |-> "text", text |-> t] : t \in ServerTexts}
      \cup {[kind |-> "binary", text |-> t] :
              t \in {ServerText("signal", "del_1"), ServerText("not_utf8", "")}}
      \cup {[kind |-> k, text |-> ServerText("", "")] :
              k \in {"close", "ws_ping", "ws_pong", "end", "read_err"}}

(* Forwarder::deliver_signal: Ok on a 2xx answer, Err on any other answer
   and when the request fails *)
deliver_signal_Below400(code) ==
    IF code = NoCode THEN "err"
    ELSE IF 200 <= code /\ code < 400 THEN "ok" ELSE "err"

deliver_signal(code) ==
    IF code = NoCode THEN "err"
    ELSE IF 200 <= code /\ code <= 299 THEN "ok" ELSE "err"

(* One write.send call on the session's sink and how it ended *)
Written(type, delivery_id, ok) ==
    [type |-> type, delivery_id |-> delivery_id, ok |-> ok]

SessionRoom == Len(agentProc.written) + Len(agentProc.forwards) < MaxFrames

(* run_tunnel after connect_and_run returned: reset the backoff on Ok, take
   the next delay (the interval grows up to its maximum), sleep *)
RunTunnelReturn_ResetAlways(result) ==
    LET level == 0 IN
    [agentProc EXCEPT !.pc = "sleep", !.result = result, !.delay = level,
                      !.backoff = IF level < MaxBackoff THEN level + 1
                                  ELSE level]

RunTunnelReturn(result) ==
    LET level == IF result = "ok" THEN 0 ELSE agentProc.backoff IN
    [agentProc EXCEPT !.pc = "sleep", !.result = result, !.delay = level,
                      !.backoff = IF level < MaxBackoff THEN level + 1
                                  ELSE level]

AgentVarsOnly ==
    UNCHANGED << dbVars, deliveries, dlq, queues, timers, runs, returned,
                 endpoint, agents, conns, got, last, resp, rp >>

(* connect_and_run up to its read loop: connect_async, then the auth frame *)
AgentConnect ==
    /\ agentProc.pc = "connect"
    /\ \E connected \in BOOLEAN : \E sent \in BOOLEAN :
         IF ~connected THEN agentProc' = RunTunnelReturn("err_connect")
         ELSE IF ~sent
              THEN agentProc' =
                     [RunTunnelReturn("err_send") EXCEPT
                        !.written = << Written("auth", "", FALSE) >>,
                        !.forwards = << >>]
              ELSE agentProc' =
                     [agentProc EXCEPT
                        !.pc = "read",
                        !.written = << Written("auth", "", TRUE) >>,
                        !.forwards = << >>]
    /\ AgentVarsOnly

(* handle_server_message: what the text adds to the session, and whether the
   call returns Ok ("go") or an Err *)
HandleServerMessage(text, code, sent) ==
    IF text.type = "auth_error" THEN [end |-> "auth_error", written |-> << >>, forwards |-> << >>]
    ELSE IF text.type = "ping"
         THEN [end |-> IF sent THEN "go" ELSE "err_send",
               written |-> << Written("pong", "", sent) >>,
               forwards |-> << >>]
    ELSE IF text.type = "signal"
         THEN IF deliver_signal(code) = "ok"
              THEN [end |-> IF sent THEN "go" ELSE "err_send",
                    written |-> << Written("ack", text.delivery_id, sent) >>,
                    forwards |-> << [delivery_id |-> text.delivery_id,
                                     code |-> code] >>]
              ELSE [end |-> "go", written |-> << >>,
                    forwards |-> << [delivery_id |-> text.delivery_id,
                                     code |-> code] >>]
    ELSE [end |-> "go", written |-> << >>, forwards |-> << >>]

(* One turn of the read loop of connect_and_run *)
AgentRead ==
    /\ agentProc.pc = "read"
    /\ \E item \in StreamItems : \E code \in ForwardCodes : \E sent \in BOOLEAN :
         IF item.kind \in {"end", "close"}
         THEN agentProc' = RunTunnelReturn("ok")
         ELSE IF item.kind = "read_err"
         THEN agentProc' = RunTunnelReturn("err_read")
         ELSE IF item.kind = "ws_ping"
         THEN /\ SessionRoom
              /\ agentProc' = [agentProc EXCEPT
                                 !.written = Append(@, Written("ws_pong", "", sent))]
         ELSE IF item.kind = "ws_pong" \/ item.text.type = "not_utf8"
         THEN agentProc' = agentProc
         ELSE LET h == HandleServerMessage(item.text, code, sent)
                  after == [agentProc EXCEPT
                              !.written = @ \o h.written,
                              !.forwards = @ \o h.forwards]
              IN /\ SessionRoom
                 /\ IF h.end = "go" THEN agentProc' = after
                    ELSE agentProc' =
                           [RunTunnelReturn(h.end) EXCEPT
                              !.written = after.written,
                              !.forwards = after.forwards]
    /\ AgentVarsOnly

(* tokio::time::sleep(delay) is over: the loop calls connect_and_run again *)
AgentWake ==
    /\ agentProc.pc = "sleep"
    /\ agentProc' = [agentProc EXCEPT !.pc = "connect"]
    /\ AgentVarsOnly

InitAgent ==
    /\ InitTables
    /\ InitQuiet
    /\ rp = NoRp
    /\ agentProc = [NoAgentProc EXCEPT !.pc = "connect"]
    /\ deliveries = << >>
    /\ dlq = << >>
    /\ timers = EmptyBag
    /\ runs = EmptyBag
    /\ returned = {}
    /\ got = NoGot
    /\ last = [s \in RegistrySubscribers |-> NoLast]
    /\ resp = NoResp

NextAgent == AgentConnect \/ AgentRead \/ AgentWake

SpecAgent == InitAgent /\ [][NextAgent]_vars

(* The runtime runs the agent's task whenever it can go on: a connection
   attempt, a read and a sleep all end *)
SpecAgentFair ==
    SpecAgent /\ WF_vars(AgentConnect) /\ WF_vars(AgentRead) /\ WF_vars(AgentWake)

(* Views of the agent's session *)
Is2xx(code) == code # NoCode /\ 200 <= code /\ code <= 299

AcksOf(d) ==
    {i \in DOMAIN agentProc.written :
        agentProc.written[i].type = "ack" /\ agentProc.written[i].delivery_id = d}

ForwardsOf(d) ==
    {j \in DOMAIN agentProc.forwards : agentProc.forwards[j].delivery_id = d}

ForwardDone ==
    Len(agentProc'.forwards) = Len(agentProc.forwards) + 1

(***************************************************************************)
(* C39: the agent sends ack{delivery_id} for a signal it received if and   *)
(* only if its local forward of that signal was answered 2xx; a forward    *)
(* that failed produces no ack and leaves the session running.  (Sending   *)
(* is the write.send call on the session's sink.)                          *)
(***************************************************************************)
C39_StatePart ==
    \A d \in AgentDeliveries :
        Cardinality(AcksOf(d)) =
          Cardinality({j \in ForwardsOf(d) : Is2xx(agentProc.forwards[j].code)})

C39_StepPart ==
    (ForwardDone /\ ~Is2xx(agentProc'.forwards[Len(agentProc'.forwards)].code)) =>
        /\ agentProc'.written = agentProc.written
        /\ agentProc'.pc = "read"
        /\ agentProc'.backoff = agentProc.backoff

C39_AckIffForwarded == [](C39_StatePart) /\ [][C39_StepPart]_vars

(* In one session the forward of del_1 was answered 300 and got no ack, the
   forward of del_2 was answered 200 and got its ack, and the session goes on *)
C39_Witness ==
    /\ agentProc.pc = "read"
    /\ agentProc.forwards = << [delivery_id |-> "del_1", code |-> 300],
                               [delivery_id |-> "del_2", code |-> 200] >>
    /\ agentProc.written = << Written("auth", "", TRUE),
                              Written("ack", "del_2", TRUE) >>

(* Views of the run_tunnel loop *)
AgentReturned == agentProc.pc # "sleep" /\ agentProc'.pc = "sleep"

AgentEnded == agentProc.pc = "sleep"

AgentConnecting == agentProc.pc = "connect"

(***************************************************************************)
(* C40: the agent never gives up: whenever a connection attempt or a       *)
(* session ended, cleanly or with an error (an auth_error answer of the    *)
(* server included), run_tunnel sleeps and then attempts a new connection; *)
(* its backoff is reset only after a session that ended cleanly.           *)
(***************************************************************************)
C40_StatePart == agentProc.pc \in {"connect", "read", "sleep"}

C40_StepPart ==
    /\ (agentProc.pc # agentProc'.pc /\ agentProc.pc # "sleep") =>
          agentProc'.pc \in {"read", "sleep"}
    /\ ~AgentReturned => agentProc'.backoff = agentProc.backoff
    /\ (AgentReturned /\ agentProc'.result # "ok") =>
          /\ agentProc'.delay = agentProc.backoff
          /\ agentProc'.backoff >= agentProc.backoff
    /\ (AgentReturned /\ agentProc'.result = "ok") => agentProc'.delay = 0

C40_NeverGivesUp ==
    /\ [](C40_StatePart)
    /\ [][C40_StepPart]_vars
    /\ (AgentEnded ~> AgentConnecting)

(* After a failed attempt and then an auth_error answer the agent connects
   again, its backoff grown twice and never reset *)
C40_Witness ==
    /\ agentProc.pc = "connect"
    /\ agentProc.result = "auth_error"
    /\ agentProc.delay = 1
    /\ agentProc.backoff = 2

====
